---- MODULE Spec2Model ----
(***************************************************************************)
(* Chat endpoint of the 3D building application: POST /api/chat (route     *)
(* handler), ChatbotService.processQuery with its twelve intent handlers,  *)
(* the SQL they send to the building store, and the chat client           *)
(* (Chatbot.sendMessage -> App highlight state -> Map.updateBuildings).    *)
(*                                                                         *)
(* Strings that the code searches or matches are sequences of one-         *)
(* character strings, so that String.includes, toLowerCase and the regular *)
(* expressions are computed character by character.                        *)
(***************************************************************************)
EXTENDS Integers, Sequences, FiniteSets, TLC

\* ------------------------------------------------------------- bounds
MaxFragments == 2      \* a message is at most this many phrases of Vocabulary
MaxStore == 4          \* the store holds the first 0..MaxStore rows of Catalog

\* ------------------------------------------------------------- JS strings
UpperCase ==
    <<"A", "B", "C", "D", "E", "F", "G", "H", "I", "J", "K", "L", "M",
      "N", "O", "P", "Q", "R", "S", "T", "U", "V", "W", "X", "Y", "Z">>

LowerCase ==
    <<"a", "b", "c", "d", "e", "f", "g", "h", "i", "j", "k", "l", "m",
      "n", "o", "p", "q", "r", "s", "t", "u", "v", "w", "x", "y", "z">>

Digits ==
    <<"0", "1", "2", "3", "4", "5", "6", "7", "8", "9">>

\* the lower-case letter of each upper-case letter
LowerOf ==
    [c \in {UpperCase[i] : i \in 1..26} |->
        LowerCase[CHOOSE i \in 1..26 : UpperCase[i] = c]]

\* String.prototype.toLowerCase, one character
LowerChar(c) ==
    IF c \in DOMAIN LowerOf THEN LowerOf[c] ELSE c

\* String.prototype.toLowerCase
RECURSIVE toLowerCase(_)
toLowerCase(s) ==
    IF s = <<>> THEN <<>> ELSE <<LowerChar(Head(s))>> \o toLowerCase(Tail(s))

\* String.prototype.includes
includes(s, sub) ==
    \E i \in 0..(Len(s) - Len(sub)) : SubSeq(s, i + 1, i + Len(sub)) = sub

\* String.prototype.trim (leading and trailing blanks removed)
RECURSIVE trim(_)
trim(s) ==
    IF s = <<>> THEN s
    ELSE IF s[1] = " " THEN trim(Tail(s))
    ELSE IF s[Len(s)] = " " THEN trim(SubSeq(s, 1, Len(s) - 1))
    ELSE s

\* the character at position i, "" past either end
At(s, i) ==
    IF i \in 1..Len(s) THEN s[i] ELSE ""

\* the literal lit stands at position i of s
StartsAt(s, i, lit) ==
    \A k \in 1..Len(lit) : At(s, i + k - 1) = lit[k]

\* regular expression class \d
IsDigit(c) ==
    \E d \in 1..10 : Digits[d] = c

\* regular expression class \s
IsSpace(c) ==
    c \in {" ", "\t", "\n", "\r"}

\* \s* from position i: the first position that is not white space
RECURSIVE SkipSpaces(_, _)
SkipSpaces(s, i) ==
    IF IsSpace(At(s, i)) THEN SkipSpaces(s, i + 1) ELSE i

\* \d+ from position i (greedy): the first position that is not a digit
RECURSIVE DigitsEnd(_, _)
DigitsEnd(s, i) ==
    IF IsDigit(At(s, i)) THEN DigitsEnd(s, i + 1) ELSE i

\* parseInt / parseFloat of a string of decimal digits
RECURSIVE parseInt(_)
parseInt(ds) ==
    IF ds = <<>> THEN 0
    ELSE 10 * parseInt(SubSeq(ds, 1, Len(ds) - 1))
         + ((CHOOSE d \in 1..10 : Digits[d] = ds[Len(ds)]) - 1)

\* result of String.prototype.match without the g flag: null, or the groups
\* of the leftmost match
NoMatch ==
    [found |-> FALSE, groups |-> <<>>]

\* TopAt with (\d) for (\d+): only the first digit is captured
TopAt_oneDigit(s, i) ==
    LET j == SkipSpaces(s, i + 3)
    IN  IF StartsAt(s, i, <<"t", "o", "p">>) /\ j > i + 3 /\ IsDigit(At(s, j))
        THEN [found |-> TRUE, groups |-> <<SubSeq(s, j, j)>>]
        ELSE NoMatch

\* /top\s+(\d+)/ tried at position i
TopAt(s, i) ==
    LET j == SkipSpaces(s, i + 3)
    IN  IF StartsAt(s, i, <<"t", "o", "p">>) /\ j > i + 3 /\ IsDigit(At(s, j))
        THEN [found |-> TRUE, groups |-> <<SubSeq(s, j, DigitsEnd(s, j) - 1)>>]
        ELSE NoMatch

\* (?:meters?|m) tried at position i
MetersAt(s, i) ==
    \/ StartsAt(s, i, <<"m", "e", "t", "e", "r", "s">>)
    \/ StartsAt(s, i, <<"m", "e", "t", "e", "r">>)
    \/ StartsAt(s, i, <<"m">>)

\* /(\d+)\s*(?:meters?|m)/ tried at position i
SingleHeightAt(s, i) ==
    LET e == DigitsEnd(s, i)
    IN  IF IsDigit(At(s, i)) /\ MetersAt(s, SkipSpaces(s, e))
        THEN [found |-> TRUE, groups |-> <<SubSeq(s, i, e - 1)>>]
        ELSE NoMatch

\* /(\d+)\s*(?:to|-)\s*(\d+)\s*(?:meters?|m)/ tried at position i
HeightRangeAt(s, i) ==
    LET e1 == DigitsEnd(s, i)
        p  == SkipSpaces(s, e1)
        q  == IF StartsAt(s, p, <<"t", "o">>) THEN p + 2
              ELSE IF StartsAt(s, p, <<"-">>) THEN p + 1
              ELSE 0
        r  == SkipSpaces(s, q)
        e2 == DigitsEnd(s, r)
    IN  IF IsDigit(At(s, i)) /\ q > 0 /\ IsDigit(At(s, r))
           /\ MetersAt(s, SkipSpaces(s, e2))
        THEN [found |-> TRUE,
              groups |-> <<SubSeq(s, i, e1 - 1), SubSeq(s, r, e2 - 1)>>]
        ELSE NoMatch

\* /over\s+(\d+)\s*(?:meters?|m)/ tried at position i
OverHeightAt(s, i) ==
    LET j == SkipSpaces(s, i + 4)
    IN  IF StartsAt(s, i, <<"o", "v", "e", "r">>) /\ j > i + 4
           /\ SingleHeightAt(s, j).found
        THEN SingleHeightAt(s, j)
        ELSE NoMatch

\* /under\s+(\d+)\s*(?:meters?|m)/ tried at position i
UnderHeightAt(s, i) ==
    LET j == SkipSpaces(s, i + 5)
    IN  IF StartsAt(s, i, <<"u", "n", "d", "e", "r">>) /\ j > i + 5
           /\ SingleHeightAt(s, j).found
        THEN SingleHeightAt(s, j)
        ELSE NoMatch

\* String.prototype.match: the match at the leftmost position that has one.
\* The /i flag of a pattern is rendered by matching the lower-cased string.
match(s, RegexAt(_, _)) ==
    LET hits == {i \in 1..Len(s) : RegexAt(s, i).found}
    IN  IF hits = {} THEN NoMatch
        ELSE RegexAt(s, CHOOSE i \in hits : \A j \in hits : i <= j)

\* ------------------------------------------------------------- building store
\* the geometry member of a building JSON: a GeoJSON text or object with its
\* type and its coordinates member (<<>> when the member is missing), or a
\* text JSON.parse rejects; for a Polygon the coordinates are its exterior
\* ring, the coordinates[0] the code reads
GeoJSON(type, coordinates) ==
    [json |-> TRUE, type |-> type, coordinates |-> coordinates]

NotJSON ==
    [json |-> FALSE, type |-> "", coordinates |-> <<>>]

\* the exterior ring of a square footprint as ST_AsGeoJSON gives it for a
\* POLYGONZ: five points [lng, lat, z], the first repeated at the end.
\* Longitudes and latitudes are counted in steps of 0.0004 degrees (39.6
\* degrees is 99000 steps), the side of the square is five steps
Ring(lng, lat) ==
    <<<<lng, lat, 0>>, <<lng + 5, lat, 0>>, <<lng + 5, lat + 5, 0>>,
      <<lng, lat + 5, 0>>, <<lng, lat, 0>>>>

\* rows the buildings table can hold, with the columns of scripts/setup.sh and
\* heights in whole meters: rows 1, 2 and 4 are sample rows of that script,
\* rows 3 and 5 are further buildings whose names contain a known name;
\* geometry is what ST_AsGeoJSON returns for the POLYGONZ column, the
\* footprints lying in the area of Map.bounds
Catalog ==
    <<
    [id |-> 1,
     name |-> <<"E", "m", "p", "i", "r", "e", " ", "S", "t", "a", "t", "e",
                " ", "B", "u", "i", "l", "d", "i", "n", "g">>,
     height |-> 443,
     building_type |-> <<"o", "f", "f", "i", "c", "e">>,
     address |-> <<"3", "5", "0", " ", "5", "t", "h", " ", "A", "v", "e">>,
     geometry |-> GeoJSON("Polygon", Ring(99498, 53498))],
    [id |-> 2,
     name |-> <<"O", "n", "e", " ", "W", "o", "r", "l", "d", " ", "T", "r",
                "a", "d", "e", " ", "C", "e", "n", "t", "e", "r">>,
     height |-> 541,
     building_type |-> <<"o", "f", "f", "i", "c", "e">>,
     address |-> <<"2", "8", "5", " ", "F", "u", "l", "t", "o", "n", " ",
                   "S", "t">>,
     geometry |-> GeoJSON("Polygon", Ring(99598, 53498))],
    [id |-> 3,
     name |-> <<"7", " ", "W", "o", "r", "l", "d", " ", "T", "r", "a", "d",
                "e", " ", "C", "e", "n", "t", "e", "r">>,
     height |-> 226,
     building_type |-> <<"o", "f", "f", "i", "c", "e">>,
     address |-> <<"2", "5", "0", " ", "G", "r", "e", "e", "n", "w", "i",
                   "c", "h", " ", "S", "t">>,
     geometry |-> GeoJSON("Polygon", Ring(99898, 53498))],
    [id |-> 4,
     name |-> <<"T", "h", "e", " ", "P", "l", "a", "z", "a", " ", "H", "o",
                "t", "e", "l">>,
     height |-> 76,
     building_type |-> <<"h", "o", "t", "e", "l">>,
     address |-> <<"7", "6", "8", " ", "5", "t", "h", " ", "A", "v", "e">>,
     geometry |-> GeoJSON("Polygon", Ring(99498, 53898))],
    [id |-> 5,
     name |-> <<"B", "a", "n", "k", " ", "o", "f", " ", "A", "m", "e", "r",
                "i", "c", "a", " ", "T", "o", "w", "e", "r">>,
     height |-> 366,
     building_type |-> <<"c", "o", "m", "m", "e", "r", "c", "i", "a", "l">>,
     address |-> <<"1", " ", "B", "r", "y", "a", "n", "t", " ", "P", "a",
                   "r", "k">>,
     geometry |-> GeoJSON("Polygon", Ring(99098, 53098))]
    >>

\* the tables the store can hold: the first n rows of Catalog
Stores ==
    {{Catalog[i] : i \in 1..n} :
        n \in 0..(IF MaxStore < Len(Catalog) THEN MaxStore ELSE Len(Catalog))}

\* a query as handed to pool.query(text, params)
Query(text, params) ==
    [text |-> text, params |-> params, rejected |-> FALSE]

\* the same query when the promise of pool.query rejects
Rejected(q) ==
    [q EXCEPT !.rejected = TRUE]

SelectBuildings ==
    "SELECT id, name, height, building_type, address, ST_AsGeoJSON(geometry) as geometry FROM buildings"

\* SQL: s LIKE p for the patterns the code builds, '%' || x || '%'
LIKE(s, p) ==
    IF Len(p) >= 2 /\ p[1] = "%" /\ p[Len(p)] = "%"
    THEN includes(s, SubSeq(p, 2, Len(p) - 1))
    ELSE s = p

\* SQL: s ILIKE p
ILIKE(s, p) ==
    LIKE(toLowerCase(s), toLowerCase(p))

\* SQL: x LIKE ANY(array)
LikeAny(s, ps) ==
    \E k \in 1..Len(ps) : LIKE(s, ps[k])

\* SQL: x ILIKE ANY(array)
ILikeAny(s, ps) ==
    \E k \in 1..Len(ps) : ILIKE(s, ps[k])

\* `%${x}%`
Pattern(x) ==
    <<"%">> \o x \o <<"%">>

\* array.map(x => `%${x}%`)
Patterns(xs) ==
    [k \in 1..Len(xs) |-> Pattern(xs[k])]

\* array.filter(f), order kept
filter(xs, f(_)) ==
    SelectSeq(xs, f)

\* the row orders a SELECT without ORDER BY may return
RECURSIVE AnyOrder(_)
AnyOrder(S) ==
    IF S = {} THEN {<<>>}
    ELSE UNION {{<<b>> \o r : r \in AnyOrder(S \ {b})} : b \in S}

\* the row orders ORDER BY height DESC may return (rows of equal height in
\* either order)
RECURSIVE OrderByHeightDesc(_)
OrderByHeightDesc(S) ==
    IF S = {} THEN {<<>>}
    ELSE LET top == {b \in S : \A c \in S : b.height >= c.height}
         IN  UNION {{<<b>> \o r : r \in OrderByHeightDesc(S \ {b})} : b \in top}

\* the row orders ORDER BY height ASC may return
RECURSIVE OrderByHeightAsc(_)
OrderByHeightAsc(S) ==
    IF S = {} THEN {<<>>}
    ELSE LET low == {b \in S : \A c \in S : b.height <= c.height}
         IN  UNION {{<<b>> \o r : r \in OrderByHeightAsc(S \ {b})} : b \in low}

\* SQL: LIMIT n
Limit(rows, n) ==
    SubSeq(rows, 1, IF n < Len(rows) THEN n ELSE Len(rows))

\* SQL: SUM(height) over a set of rows
RECURSIVE SumHeight(_)
SumHeight(S) ==
    IF S = {} THEN 0
    ELSE LET b == CHOOSE x \in S : TRUE IN b.height + SumHeight(S \ {b})

\* SQL: ... FROM buildings [WHERE keep] GROUP BY building_type, one row a
\* type; AVG(height) is kept as the pair sum_height / count
GroupByType(S) ==
    {[building_type |-> t,
      count |-> Cardinality({b \in S : b.building_type = t}),
      sum_height |-> SumHeight({b \in S : b.building_type = t}),
      max_height |-> CHOOSE h \in {b.height : b \in {x \in S : x.building_type = t}} :
                        \A b \in S : b.building_type = t => h >= b.height,
      min_height |-> CHOOSE h \in {b.height : b \in {x \in S : x.building_type = t}} :
                        \A b \in S : b.building_type = t => h <= b.height] :
        t \in {b.building_type : b \in S}}

\* the row orders ORDER BY count DESC may return
RECURSIVE OrderByCountDesc(_)
OrderByCountDesc(G) ==
    IF G = {} THEN {<<>>}
    ELSE LET top == {g \in G : \A h \in G : g.count >= h.count}
         IN  UNION {{<<g>> \o r : r \in OrderByCountDesc(G \ {g})} : g \in top}

Abs(x) ==
    IF x < 0 THEN -x ELSE x

\* ------------------------------------------------------------- ChatbotService
\* What one call of a handler does: the functions it called, the queries it
\* handed to pool.query, and the value it returned (threw: it rejected).
Outcome(calls, queries, response) ==
    [calls |-> calls, queries |-> queries, response |-> response, threw |-> FALSE]

\* { type: 'text', content }
Text(content) ==
    [type |-> "text", content |-> [text |-> content]]

buildingNames ==
    << <<"e", "m", "p", "i", "r", "e", " ", "s", "t", "a", "t", "e">>,
       <<"w", "o", "r", "l", "d", " ", "t", "r", "a", "d", "e">>,
       <<"c", "h", "r", "y", "s", "l", "e", "r">>,
       <<"b", "a", "n", "k", " ", "o", "f", " ", "a", "m", "e", "r", "i", "c", "a">>,
       <<"n", "e", "w", " ", "y", "o", "r", "k", " ", "t", "i", "m", "e", "s">> >>

buildingTypes ==
    << <<"o", "f", "f", "i", "c", "e">>,
       <<"r", "e", "s", "i", "d", "e", "n", "t", "i", "a", "l">>,
       <<"c", "o", "m", "m", "e", "r", "c", "i", "a", "l">>,
       <<"h", "o", "t", "e", "l">>,
       <<"a", "p", "a", "r", "t", "m", "e", "n", "t">>,
       <<"r", "e", "t", "a", "i", "l">>,
       <<"i", "n", "d", "u", "s", "t", "r", "i", "a", "l">> >>

addressKeywords ==
    << <<"s", "t", "r", "e", "e", "t">>,
       <<"a", "v", "e", "n", "u", "e">>,
       <<"a", "v", "e">>,
       <<"s", "t">>,
       <<"r", "o", "a", "d">>,
       <<"r", "d">>,
       <<"b", "o", "u", "l", "e", "v", "a", "r", "d">>,
       <<"b", "l", "v", "d">> >>

\* an async function whose promise rejects
Throws(calls, queries) ==
    [calls |-> calls, queries |-> queries, response |-> Text(""), threw |-> TRUE]

\* getTallestBuilding without its try/catch: a rejected query rejects the call
getTallestBuilding_noCatch(st, dbOk) ==
    LET q == Query(SelectBuildings \o " ORDER BY height DESC LIMIT 1", <<>>)
        c == <<"getTallestBuilding">>
    IN  IF ~dbOk
        THEN {Throws(c, <<Rejected(q)>>)}
        ELSE {IF Len(rows) > 0
              THEN Outcome(c, <<q>>,
                     [type |-> "building_highlight",
                      content |-> [text |-> "Tallest Building", name |-> rows[1].name,
                                   height |-> rows[1].height],
                      building |-> rows[1]])
              ELSE Outcome(c, <<q>>, Text("No building data available in the database.")) :
                rows \in {Limit(r, 1) : r \in OrderByHeightDesc(st)}}

getTallestBuilding(st, dbOk) ==
    LET q == Query(SelectBuildings \o " ORDER BY height DESC LIMIT 1", <<>>)
        c == <<"getTallestBuilding">>
    IN  IF ~dbOk
        THEN {Outcome(c, <<Rejected(q)>>,
                Text("Sorry, I encountered an error while searching for the tallest building."))}
        ELSE {IF Len(rows) > 0
              THEN Outcome(c, <<q>>,
                     [type |-> "building_highlight",
                      content |-> [text |-> "Tallest Building", name |-> rows[1].name,
                                   height |-> rows[1].height],
                      building |-> rows[1]])
              ELSE Outcome(c, <<q>>, Text("No building data available in the database.")) :
                rows \in {Limit(r, 1) : r \in OrderByHeightDesc(st)}}

getShortestBuilding(st, dbOk) ==
    LET q == Query(SelectBuildings \o " ORDER BY height ASC LIMIT 1", <<>>)
        c == <<"getShortestBuilding">>
    IN  IF ~dbOk
        THEN {Outcome(c, <<Rejected(q)>>,
                Text("Sorry, I encountered an error while searching for the shortest building."))}
        ELSE {IF Len(rows) > 0
              THEN Outcome(c, <<q>>,
                     [type |-> "building_highlight",
                      content |-> [text |-> "Shortest Building", name |-> rows[1].name,
                                   height |-> rows[1].height],
                      building |-> rows[1]])
              ELSE Outcome(c, <<q>>, Text("No building data available in the database.")) :
                rows \in {Limit(r, 1) : r \in OrderByHeightAsc(st)}}

\* getTopBuildings answering with the type tag of getTallestBuilding
getTopBuildings_wrongType(limit, st, dbOk) ==
    LET q == Query(SelectBuildings \o " ORDER BY height DESC LIMIT $1", <<limit>>)
        c == <<"getTopBuildings">>
    IN  IF ~dbOk
        THEN {Outcome(c, <<Rejected(q)>>,
                Text("Sorry, I encountered an error while retrieving the top buildings."))}
        ELSE {IF Len(rows) > 0
              THEN Outcome(c, <<q>>,
                     [type |-> "building_highlight",
                      content |-> [text |-> "Top Tallest Buildings", limit |-> limit],
                      buildings |-> rows])
              ELSE Outcome(c, <<q>>, Text("No building data available in the database.")) :
                rows \in {Limit(r, limit) : r \in OrderByHeightDesc(st)}}

getTopBuildings(limit, st, dbOk) ==
    LET q == Query(SelectBuildings \o " ORDER BY height DESC LIMIT $1", <<limit>>)
        c == <<"getTopBuildings">>
    IN  IF ~dbOk
        THEN {Outcome(c, <<Rejected(q)>>,
                Text("Sorry, I encountered an error while retrieving the top buildings."))}
        ELSE {IF Len(rows) > 0
              THEN Outcome(c, <<q>>,
                     [type |-> "search_results",
                      content |-> [text |-> "Top Tallest Buildings", limit |-> limit],
                      buildings |-> rows])
              ELSE Outcome(c, <<q>>, Text("No building data available in the database.")) :
                rows \in {Limit(r, limit) : r \in OrderByHeightDesc(st)}}

compareBuildings(message, st, dbOk) ==
    LET lower == toLowerCase(message)
        foundBuildings == filter(buildingNames, LAMBDA name : includes(lower, name))
        q == Query(SelectBuildings \o " WHERE LOWER(name) LIKE ANY($1) ORDER BY height DESC",
                   <<Patterns(foundBuildings)>>)
        c == <<"compareBuildings">>
    IN  IF Len(foundBuildings) < 2
        THEN {Outcome(c, <<>>, Text("Please specify two buildings to compare."))}
        ELSE IF ~dbOk
        THEN {Outcome(c, <<Rejected(q)>>,
                Text("Sorry, I encountered an error while comparing buildings."))}
        ELSE {IF Len(rows) >= 2
              THEN Outcome(c, <<q>>,
                     [type |-> "search_results",
                      content |-> [text |-> "Building Comparison",
                                   building1 |-> rows[1].name,
                                   building2 |-> rows[2].name,
                                   heightDiff |-> Abs(rows[1].height - rows[2].height)],
                      buildings |-> rows])
              ELSE Outcome(c, <<q>>,
                     Text("Could not find the specified buildings for comparison.")) :
                rows \in OrderByHeightDesc(
                    {b \in st : LikeAny(toLowerCase(b.name), Patterns(foundBuildings))})}

\* getHeightRangeAnalysis writing the two heights into the statement text
getHeightRangeAnalysis_interpolated(message, st, dbOk) ==
    LET lower == toLowerCase(message)
        heightMatch == match(lower, HeightRangeAt)
        minHeight == IF heightMatch.found THEN parseInt(heightMatch.groups[1]) ELSE 100
        maxHeight == IF heightMatch.found THEN parseInt(heightMatch.groups[2]) ELSE 500
        q == Query(SelectBuildings \o " WHERE height BETWEEN " \o ToString(minHeight)
                       \o " AND " \o ToString(maxHeight) \o " ORDER BY height DESC",
                   <<>>)
        c == <<"getHeightRangeAnalysis">>
    IN  IF ~dbOk
        THEN {Outcome(c, <<Rejected(q)>>,
                Text("Sorry, I encountered an error while analyzing height ranges."))}
        ELSE {IF Len(rows) > 0
              THEN Outcome(c, <<q>>,
                     [type |-> "search_results",
                      content |-> [text |-> "Height Range Analysis",
                                   minHeight |-> minHeight, maxHeight |-> maxHeight,
                                   total |-> Len(rows)],
                      buildings |-> rows])
              ELSE Outcome(c, <<q>>,
                     [type |-> "text",
                      content |-> [text |-> "No buildings found in the height range",
                                   minHeight |-> minHeight, maxHeight |-> maxHeight]]) :
                rows \in OrderByHeightDesc(
                    {b \in st : minHeight <= b.height /\ b.height <= maxHeight})}

getHeightRangeAnalysis(message, st, dbOk) ==
    LET lower == toLowerCase(message)
        heightMatch == match(lower, HeightRangeAt)
        minHeight == IF heightMatch.found THEN parseInt(heightMatch.groups[1]) ELSE 100
        maxHeight == IF heightMatch.found THEN parseInt(heightMatch.groups[2]) ELSE 500
        q == Query(SelectBuildings \o " WHERE height BETWEEN $1 AND $2 ORDER BY height DESC",
                   <<minHeight, maxHeight>>)
        c == <<"getHeightRangeAnalysis">>
    IN  IF ~dbOk
        THEN {Outcome(c, <<Rejected(q)>>,
                Text("Sorry, I encountered an error while analyzing height ranges."))}
        ELSE {IF Len(rows) > 0
              THEN Outcome(c, <<q>>,
                     [type |-> "search_results",
                      content |-> [text |-> "Height Range Analysis",
                                   minHeight |-> minHeight, maxHeight |-> maxHeight,
                                   total |-> Len(rows)],
                      buildings |-> rows])
              ELSE Outcome(c, <<q>>,
                     [type |-> "text",
                      content |-> [text |-> "No buildings found in the height range",
                                   minHeight |-> minHeight, maxHeight |-> maxHeight]]) :
                rows \in OrderByHeightDesc(
                    {b \in st : minHeight <= b.height /\ b.height <= maxHeight})}

getBuildingTypeAnalysis(st, dbOk) ==
    LET q == Query("SELECT building_type, COUNT(*) as count, AVG(height) as avg_height, MAX(height) as max_height, MIN(height) as min_height FROM buildings GROUP BY building_type ORDER BY count DESC",
                   <<>>)
        c == <<"getBuildingTypeAnalysis">>
    IN  IF ~dbOk
        THEN {Outcome(c, <<Rejected(q)>>,
                Text("Sorry, I encountered an error while analyzing building types."))}
        ELSE {IF Len(rows) > 0
              THEN Outcome(c, <<q>>,
                     [type |-> "text",
                      content |-> [text |-> "Building Type Distribution", stats |-> rows]])
              ELSE Outcome(c, <<q>>, Text("No building data available for type analysis.")) :
                rows \in OrderByCountDesc(GroupByType(st))}

\* Array.prototype.reduce
RECURSIVE reduce(_, _, _)
reduce(xs, f(_, _), init) ==
    IF xs = <<>> THEN init ELSE reduce(Tail(xs), f, f(init, Head(xs)))

searchBuildings(message, st, dbOk) ==
    LET lower == toLowerCase(message)
        foundTypes == filter(buildingTypes, LAMBDA type : includes(lower, type))
        heightMatch == match(lower, HeightRangeAt)
        singleHeightMatch == match(lower, SingleHeightAt)
        overHeightMatch == match(lower, OverHeightAt)
        underHeightMatch == match(lower, UnderHeightAt)
        typeCount == IF Len(foundTypes) > 0 THEN 1 ELSE 0
        typeParams == IF Len(foundTypes) > 0 THEN <<Patterns(foundTypes)>> ELSE <<>>
        typeQuery == IF Len(foundTypes) > 0
                     THEN " AND building_type ILIKE ANY($" \o ToString(typeCount) \o ")"
                     ELSE ""
        heightParams ==
            IF heightMatch.found
            THEN <<parseInt(heightMatch.groups[1]), parseInt(heightMatch.groups[2])>>
            ELSE IF singleHeightMatch.found THEN <<parseInt(singleHeightMatch.groups[1])>>
            ELSE IF overHeightMatch.found THEN <<parseInt(overHeightMatch.groups[1])>>
            ELSE IF underHeightMatch.found THEN <<parseInt(underHeightMatch.groups[1])>>
            ELSE <<>>
        heightQuery ==
            IF heightMatch.found
            THEN " AND height >= $" \o ToString(typeCount + 1)
                 \o " AND height <= $" \o ToString(typeCount + 2)
            ELSE IF singleHeightMatch.found THEN " AND height >= $" \o ToString(typeCount + 1)
            ELSE IF overHeightMatch.found THEN " AND height > $" \o ToString(typeCount + 1)
            ELSE IF underHeightMatch.found THEN " AND height < $" \o ToString(typeCount + 1)
            ELSE ""
        heightKeeps(b) ==
            IF heightMatch.found
            THEN b.height >= heightParams[1] /\ b.height <= heightParams[2]
            ELSE IF singleHeightMatch.found THEN b.height >= heightParams[1]
            ELSE IF overHeightMatch.found THEN b.height > heightParams[1]
            ELSE IF underHeightMatch.found THEN b.height < heightParams[1]
            ELSE TRUE
        q == Query(SelectBuildings \o " WHERE 1=1" \o typeQuery \o heightQuery
                       \o " ORDER BY height DESC LIMIT 10",
                   typeParams \o heightParams)
        c == <<"searchBuildings">>
    IN  IF ~dbOk
        THEN {Outcome(c, <<Rejected(q)>>,
                Text("Sorry, I encountered an error while searching for buildings."))}
        ELSE {IF Len(rows) > 0
              THEN Outcome(c, <<q>>,
                     [type |-> "search_results",
                      content |-> [text |-> "Search Results", found |-> Len(rows),
                                   types |-> foundTypes,
                                   between |-> heightMatch.groups,
                                   over |-> overHeightMatch.groups,
                                   under |-> underHeightMatch.groups],
                      buildings |-> rows])
              ELSE Outcome(c, <<q>>,
                     Text("No buildings found matching your search criteria. Try different keywords or height ranges.")) :
                rows \in {Limit(r, 10) : r \in OrderByHeightDesc(
                    {b \in st : /\ Len(foundTypes) > 0 =>
                                     ILikeAny(b.building_type, Patterns(foundTypes))
                                /\ heightKeeps(b)})}}

getBuildingStatistics(st, dbOk) ==
    LET q == Query("SELECT COUNT(*) as total_buildings, AVG(height) as avg_height, MAX(height) as max_height, MIN(height) as min_height, building_type, COUNT(*) as count_by_type FROM buildings GROUP BY building_type ORDER BY count_by_type DESC",
                   <<>>)
        c == <<"getBuildingStatistics">>
    IN  IF ~dbOk
        THEN {Outcome(c, <<Rejected(q)>>,
                Text("Sorry, I encountered an error while retrieving building statistics."))}
        ELSE {IF Len(stats) > 0
              THEN Outcome(c, <<q>>,
                     [type |-> "text",
                      content |-> [text |-> "Building Statistics",
                                   totalBuildings |->
                                       reduce(stats, LAMBDA sum, stat : sum + stat.count, 0),
                                   \* avgHeight, as the pair numerator / totalBuildings
                                   avgHeightTimesTotal |->
                                       reduce(stats, LAMBDA sum, stat : sum + stat.sum_height, 0),
                                   tallest |-> stats[1].max_height,
                                   shortest |-> stats[1].min_height,
                                   byType |-> stats]])
              ELSE Outcome(c, <<q>>, Text("No building data available for statistics.")) :
                stats \in OrderByCountDesc(GroupByType(st))}

getSpecificBuilding(message, st, dbOk) ==
    LET lower == toLowerCase(message)
        found == filter(buildingNames, LAMBDA name : includes(lower, name))
        \* buildingNames.find: the first name of the list the message includes
        foundName == IF Len(found) > 0 THEN found[1] ELSE <<>>
        q == Query(SelectBuildings \o " WHERE LOWER(name) LIKE $1", <<Pattern(foundName)>>)
        c == <<"getSpecificBuilding">>
    IN  IF Len(found) = 0
        THEN {Outcome(c, <<>>,
                Text("Please specify a building name. Try: \"Tell me about Empire State Building\""))}
        ELSE IF ~dbOk
        THEN {Outcome(c, <<Rejected(q)>>,
                Text("Sorry, I encountered an error while searching for the building."))}
        ELSE {IF Len(rows) > 0
              THEN Outcome(c, <<q>>,
                     [type |-> "building_highlight",
                      content |-> [text |-> "Specific Building", name |-> rows[1].name,
                                   height |-> rows[1].height],
                      building |-> rows[1]])
              ELSE Outcome(c, <<q>>,
                     [type |-> "text",
                      content |-> [text |-> "Could not find information about",
                                   foundName |-> foundName]]) :
                rows \in AnyOrder({b \in st : LIKE(toLowerCase(b.name), Pattern(foundName))})}

searchByAddress(message, st, dbOk) ==
    LET lower == toLowerCase(message)
        foundKeywords == filter(addressKeywords, LAMBDA keyword : includes(lower, keyword))
        q == Query(SelectBuildings \o " WHERE LOWER(address) LIKE ANY($1) ORDER BY height DESC",
                   <<Patterns(foundKeywords)>>)
        c == <<"searchByAddress">>
    IN  IF Len(foundKeywords) = 0
        THEN {Outcome(c, <<>>,
                Text("Please specify an address or street name. Try: \"Find buildings on 5th Avenue\""))}
        ELSE IF ~dbOk
        THEN {Outcome(c, <<Rejected(q)>>,
                Text("Sorry, I encountered an error while searching by address."))}
        ELSE {IF Len(rows) > 0
              THEN Outcome(c, <<q>>,
                     [type |-> "search_results",
                      content |-> [text |-> "Buildings by Address", found |-> Len(rows)],
                      buildings |-> rows])
              ELSE Outcome(c, <<q>>,
                     Text("No buildings found at the specified address or street.")) :
                rows \in OrderByHeightDesc(
                    {b \in st : LikeAny(toLowerCase(b.address), Patterns(foundKeywords))})}

getBuildingCount(message, st, dbOk) ==
    LET lower == toLowerCase(message)
        foundTypes == filter(buildingTypes, LAMBDA type : includes(lower, type))
        qTotal == Query("SELECT COUNT(*) as total FROM buildings", <<>>)
        q == Query("SELECT building_type, COUNT(*) as count FROM buildings WHERE building_type ILIKE ANY($1) GROUP BY building_type",
                   <<Patterns(foundTypes)>>)
        c == <<"getBuildingCount">>
    IN  IF Len(foundTypes) = 0
        THEN IF ~dbOk
             THEN {Outcome(c, <<Rejected(qTotal)>>,
                     Text("Sorry, I encountered an error while counting buildings."))}
             ELSE {Outcome(c, <<qTotal>>,
                     [type |-> "text",
                      content |-> [text |-> "Total Buildings", total |-> Cardinality(st)]])}
        ELSE IF ~dbOk
        THEN {Outcome(c, <<Rejected(q)>>,
                Text("Sorry, I encountered an error while counting buildings."))}
        ELSE {IF Len(rows) > 0
              THEN Outcome(c, <<q>>,
                     [type |-> "text",
                      content |-> [text |-> "Building Count", stats |-> rows]])
              ELSE Outcome(c, <<q>>,
                     [type |-> "text",
                      content |-> [text |-> "No buildings found in the database.",
                                   types |-> foundTypes]]) :
                rows \in AnyOrder(GroupByType(
                    {b \in st : ILikeAny(b.building_type, Patterns(foundTypes))}))}

\* getNearbyBuildings asking the store, as the other handlers do
getNearbyBuildings_withQuery(message) ==
    {Outcome(<<"getNearbyBuildings">>,
        <<Query(SelectBuildings \o " ORDER BY height DESC", <<>>)>>,
        Text("To find buildings near a specific location, please provide the latitude and longitude coordinates, or use the map interface to select a location. You can also try searching by address or street name."))}

getNearbyBuildings(message) ==
    {Outcome(<<"getNearbyBuildings">>, <<>>,
        Text("To find buildings near a specific location, please provide the latitude and longitude coordinates, or use the map interface to select a location. You can also try searching by address or street name."))}

HelpText ==
    "I can help you analyze building data! Try asking about: Tallest/shortest buildings, Top 5 tallest buildings, Building comparisons, Height ranges and skyscrapers, Building type distribution, Search by type or height, Building statistics, Specific buildings by name, Buildings by address, How many buildings of a certain type"

\* the conditions of processQuery's if statements, in source order
isTallestQuery(lowerMessage) ==
    \/ includes(lowerMessage, <<"t", "a", "l", "l", "e", "s", "t">>)
    \/ includes(lowerMessage, <<"h", "i", "g", "h", "e", "s", "t">>)
    \/ includes(lowerMessage, <<"m", "a", "x", "i", "m", "u", "m", " ", "h", "e", "i", "g", "h", "t">>)

isShortestQuery(lowerMessage) ==
    \/ includes(lowerMessage, <<"s", "h", "o", "r", "t", "e", "s", "t">>)
    \/ includes(lowerMessage, <<"l", "o", "w", "e", "s", "t">>)
    \/ includes(lowerMessage, <<"m", "i", "n", "i", "m", "u", "m", " ", "h", "e", "i", "g", "h", "t">>)

isTopQuery(lowerMessage) ==
    /\ includes(lowerMessage, <<"t", "o", "p">>)
    /\ \/ includes(lowerMessage, <<"b", "u", "i", "l", "d", "i", "n", "g", "s">>)
       \/ includes(lowerMessage, <<"t", "a", "l", "l", "e", "s", "t">>)

isCompareQuery(lowerMessage) ==
    \/ includes(lowerMessage, <<"c", "o", "m", "p", "a", "r", "e">>)
    \/ includes(lowerMessage, <<"d", "i", "f", "f", "e", "r", "e", "n", "c", "e">>)
    \/ includes(lowerMessage, <<"v", "s">>)
    \/ includes(lowerMessage, <<"v", "e", "r", "s", "u", "s">>)

isHeightRangeQuery(lowerMessage) ==
    \/ includes(lowerMessage, <<"h", "e", "i", "g", "h", "t", " ", "r", "a", "n", "g", "e">>)
    \/ includes(lowerMessage, <<"b", "e", "t", "w", "e", "e", "n">>)
    \/ includes(lowerMessage, <<"t", "a", "l", "l", " ", "b", "u", "i", "l", "d", "i", "n", "g", "s">>)
    \/ includes(lowerMessage, <<"s", "k", "y", "s", "c", "r", "a", "p", "e", "r", "s">>)

isTypeAnalysisQuery(lowerMessage) ==
    /\ includes(lowerMessage, <<"t", "y", "p", "e">>)
    /\ \/ includes(lowerMessage, <<"d", "i", "s", "t", "r", "i", "b", "u", "t", "i", "o", "n">>)
       \/ includes(lowerMessage, <<"b", "r", "e", "a", "k", "d", "o", "w", "n">>)
       \/ includes(lowerMessage, <<"c", "a", "t", "e", "g", "o", "r", "y">>)

isSearchQuery(lowerMessage) ==
    \/ includes(lowerMessage, <<"s", "e", "a", "r", "c", "h">>)
    \/ includes(lowerMessage, <<"f", "i", "n", "d">>)
    \/ includes(lowerMessage, <<"s", "h", "o", "w">>)
    \/ includes(lowerMessage, <<"l", "i", "s", "t">>)

isStatisticsQuery(lowerMessage) ==
    \/ includes(lowerMessage, <<"s", "t", "a", "t", "i", "s", "t", "i", "c", "s">>)
    \/ includes(lowerMessage, <<"s", "t", "a", "t", "s">>)
    \/ includes(lowerMessage, <<"s", "u", "m", "m", "a", "r", "y">>)
    \/ includes(lowerMessage, <<"o", "v", "e", "r", "v", "i", "e", "w">>)

isNearbyQuery(lowerMessage) ==
    \/ includes(lowerMessage, <<"n", "e", "a", "r">>)
    \/ includes(lowerMessage, <<"a", "r", "o", "u", "n", "d">>)
    \/ includes(lowerMessage, <<"w", "i", "t", "h", "i", "n">>)
    \/ includes(lowerMessage, <<"d", "i", "s", "t", "a", "n", "c", "e">>)

isSpecificBuildingQuery(lowerMessage) ==
    \/ includes(lowerMessage, <<"e", "m", "p", "i", "r", "e", " ", "s", "t", "a", "t", "e">>)
    \/ includes(lowerMessage, <<"w", "o", "r", "l", "d", " ", "t", "r", "a", "d", "e">>)
    \/ includes(lowerMessage, <<"c", "h", "r", "y", "s", "l", "e", "r">>)

isAddressQuery(lowerMessage) ==
    \/ includes(lowerMessage, <<"a", "d", "d", "r", "e", "s", "s">>)
    \/ includes(lowerMessage, <<"l", "o", "c", "a", "t", "i", "o", "n">>)
    \/ includes(lowerMessage, <<"s", "t", "r", "e", "e", "t">>)

isCountQuery(lowerMessage) ==
    \/ includes(lowerMessage, <<"h", "o", "w", " ", "m", "a", "n", "y">>)
    \/ includes(lowerMessage, <<"c", "o", "u", "n", "t">>)
    \/ includes(lowerMessage, <<"t", "o", "t", "a", "l", " ", "n", "u", "m", "b", "e", "r">>)

\* const limit = numberMatch ? parseInt(numberMatch[1]) : 5
topLimit(lowerMessage) ==
    LET numberMatch == match(lowerMessage, TopAt)
    IN  IF numberMatch.found THEN parseInt(numberMatch.groups[1]) ELSE 5

\* processQuery with the count check moved to the top of the cascade
processQuery_countFirst(message, st, dbOk) ==
    LET lowerMessage == toLowerCase(message)
    IN  IF isCountQuery(lowerMessage) THEN getBuildingCount(message, st, dbOk)
        ELSE IF isTallestQuery(lowerMessage) THEN getTallestBuilding(st, dbOk)
        ELSE IF isShortestQuery(lowerMessage) THEN getShortestBuilding(st, dbOk)
        ELSE IF isTopQuery(lowerMessage)
        THEN getTopBuildings(topLimit(lowerMessage), st, dbOk)
        ELSE IF isCompareQuery(lowerMessage) THEN compareBuildings(message, st, dbOk)
        ELSE IF isHeightRangeQuery(lowerMessage)
        THEN getHeightRangeAnalysis(message, st, dbOk)
        ELSE IF isTypeAnalysisQuery(lowerMessage) THEN getBuildingTypeAnalysis(st, dbOk)
        ELSE IF isSearchQuery(lowerMessage) THEN searchBuildings(message, st, dbOk)
        ELSE IF isStatisticsQuery(lowerMessage) THEN getBuildingStatistics(st, dbOk)
        ELSE IF isNearbyQuery(lowerMessage) THEN getNearbyBuildings(message)
        ELSE IF isSpecificBuildingQuery(lowerMessage)
        THEN getSpecificBuilding(message, st, dbOk)
        ELSE IF isAddressQuery(lowerMessage) THEN searchByAddress(message, st, dbOk)
        ELSE {Outcome(<<>>, <<>>, Text(HelpText))}

processQuery(message, st, dbOk) ==
    LET lowerMessage == toLowerCase(message)
    IN  IF isTallestQuery(lowerMessage) THEN getTallestBuilding(st, dbOk)
        ELSE IF isShortestQuery(lowerMessage) THEN getShortestBuilding(st, dbOk)
        ELSE IF isTopQuery(lowerMessage)
        THEN getTopBuildings(topLimit(lowerMessage), st, dbOk)
        ELSE IF isCompareQuery(lowerMessage) THEN compareBuildings(message, st, dbOk)
        ELSE IF isHeightRangeQuery(lowerMessage)
        THEN getHeightRangeAnalysis(message, st, dbOk)
        ELSE IF isTypeAnalysisQuery(lowerMessage) THEN getBuildingTypeAnalysis(st, dbOk)
        ELSE IF isSearchQuery(lowerMessage) THEN searchBuildings(message, st, dbOk)
        ELSE IF isStatisticsQuery(lowerMessage) THEN getBuildingStatistics(st, dbOk)
        ELSE IF isNearbyQuery(lowerMessage) THEN getNearbyBuildings(message)
        ELSE IF isSpecificBuildingQuery(lowerMessage)
        THEN getSpecificBuilding(message, st, dbOk)
        ELSE IF isAddressQuery(lowerMessage) THEN searchByAddress(message, st, dbOk)
        ELSE IF isCountQuery(lowerMessage) THEN getBuildingCount(message, st, dbOk)
        ELSE {Outcome(<<>>, <<>>, Text(HelpText))}

\* ------------------------------------------------------------- inputs
\* phrases a chat message is put together from, joined by single blanks
Vocabulary ==
    {
    <<"t", "a", "l", "l", "e", "s", "t">>,
    <<"s", "h", "o", "r", "t", "e", "s", "t">>,
    <<"s", "h", "o", "w", " ", "m", "e", " ", "t", "o", "p", " ", "1", "2">>,
    <<"t", "o", "p">>,
    <<"t", "o", "p", " ", "2">>,
    <<"b", "u", "i", "l", "d", "i", "n", "g", "s">>,
    <<"C", "o", "m", "p", "a", "r", "e", " ", "E", "m", "p", "i", "r", "e",
      " ", "S", "t", "a", "t", "e">>,
    <<"v", "s", " ", "W", "o", "r", "l", "d", " ", "T", "r", "a", "d", "e">>,
    <<"b", "a", "n", "k", " ", "o", "f", " ", "a", "m", "e", "r", "i", "c",
      "a">>,
    <<"b", "e", "t", "w", "e", "e", "n">>,
    <<"t", "y", "p", "e">>,
    <<"d", "i", "s", "t", "r", "i", "b", "u", "t", "i", "o", "n">>,
    <<"f", "i", "n", "d", " ", "h", "o", "t", "e", "l">>,
    <<"u", "n", "d", "e", "r", " ", "2", "2", "6", " ", "m">>,
    <<"1", "0", "0", " ", "t", "o", " ", "3", "0", "0", " ", "m">>,
    <<"s", "t", "a", "t", "s">>,
    <<"n", "e", "a", "r">>,
    <<"s", "t", "r", "e", "e", "t">>,
    <<"a", "d", "d", "r", "e", "s", "s">>,
    <<"h", "o", "w", " ", "m", "a", "n", "y">>,
    <<"s", "h", "o", "w">>
    }

\* the strings of at most n phrases
RECURSIVE Phrases(_)
Phrases(n) ==
    IF n = 0 THEN {<<>>}
    ELSE Phrases(n - 1) \cup
         {IF m = <<>> THEN f ELSE m \o <<" ">> \o f :
             m \in Phrases(n - 1) \ {<<>>}, f \in Vocabulary}
         \cup Vocabulary

\* JavaScript values a JSON body can carry in its message member
JsString(chars) ==
    [t |-> "string", v |-> chars]

NonStrings ==
    {[t |-> "undefined", v |-> <<>>], [t |-> "null", v |-> <<>>],
     [t |-> "number", v |-> <<123>>], [t |-> "number", v |-> <<0>>],
     [t |-> "boolean", v |-> <<TRUE>>], [t |-> "object", v |-> <<>>]}

\* typeof x
typeof(x) ==
    IF x.t = "null" THEN "object" ELSE x.t

\* !x is false
Truthy(x) ==
    CASE x.t = "undefined" -> FALSE
      [] x.t = "null" -> FALSE
      [] x.t = "number" -> x.v # <<0>>
      [] x.t = "boolean" -> x.v = <<TRUE>>
      [] x.t = "string" -> x.v # <<>>
      [] OTHER -> TRUE

Bodies ==
    {[message |-> JsString(m)] : m \in Phrases(MaxFragments)}
    \cup {[message |-> x] : x \in NonStrings}

\* what the user puts into the chat input: suggestions served by
\* GET /api/chat/suggestions, and a blank
ClientInputs ==
    {
    <<"W", "h", "a", "t", " ", "i", "s", " ", "t", "h", "e", " ", "t", "a",
      "l", "l", "e", "s", "t", " ", "b", "u", "i", "l", "d", "i", "n", "g",
      "?">>,
    <<"L", "i", "s", "t", " ", "h", "o", "t", "e", "l", " ", "b", "u", "i",
      "l", "d", "i", "n", "g", "s">>,
    <<"L", "i", "s", "t", " ", "t", "o", "p", " ", "1", "0", " ", "b", "u",
      "i", "l", "d", "i", "n", "g", "s">>,
    <<"G", "e", "t", " ", "b", "u", "i", "l", "d", "i", "n", "g", " ", "s",
      "t", "a", "t", "i", "s", "t", "i", "c", "s">>,
    <<" ">>
    }

MaxSends == 2          \* chat messages the user sends in one session

\* ------------------------------------------------------------- state
VARIABLES
    store,      \* rows of the buildings table
    req,        \* the POST /api/chat request being handled, or NoRequest
    res,        \* the HTTP response to it, or NoResponse
    calls,      \* service functions the route handler called for req
    queries,    \* queries handed to pool.query for req
    inputValue, \* Chatbot: text of the input field
    isLoading,  \* Chatbot: a request is in flight
    messages,   \* Chatbot: the conversation
    buildings,  \* App: the fetched building list (Map's buildings prop)
    highlightedBuilding,   \* App: the singly highlighted building
    highlightedBuildings,  \* App: the buildings highlighted together
    timers,     \* Map: framing callbacks scheduled with setTimeout, oldest first
    camera,     \* Map: the framing last applied to camera and controls
    buildingsGroup,  \* Map: the meshes of the buildings group, in the order added
    loading,    \* App: the building list is being fetched
    error,      \* App: the error message shown, <<>> for null
    heightScale \* the footprint size a height scale is asked for, and the answers

server == <<store, req, res, calls, queries>>
client == <<inputValue, isLoading, messages, buildings, highlightedBuilding,
            highlightedBuildings, timers, camera>>
view == <<buildingsGroup, loading, error, heightScale>>
vars == <<server, client, view>>

NoRequest == [from |-> "none"]
NoResponse == [status |-> 0]
NoBuilding == [id |-> 0]
NoScale == [footprintWidth |-> 0, footprintDepth |-> 0, addBuildings |-> <<>>,
            flyToBuilding |-> <<>>, getBuildingScreenPosition |-> <<>>]

\* camera and controls after initializeMap, which the Reset View button sets
\* again. The camera is held as the framing last applied, the buildings it
\* framed, controls.target and the distance, in twentieths of a scene unit;
\* camera.position is (target.x, distance, target.z + distance) after a fit
\* and lies at that distance under 45 degrees after a fly-to
NoFraming ==
    [framing |-> "none", buildings |-> <<>>,
     target |-> [x |-> 0, y |-> 0, z |-> 0], distance |-> 30000]

Init ==
    /\ store \in Stores
    /\ req = NoRequest
    /\ res = NoResponse
    /\ calls = <<>>
    /\ queries = <<>>
    /\ inputValue = <<>>
    /\ isLoading = FALSE
    /\ messages = <<[sender |-> "bot",
                     text |-> "Hello! I can help you analyze building data. Ask me about the tallest buildings, search by type, or get detailed statistics."]>>
    /\ buildings = <<>>
    /\ highlightedBuilding = NoBuilding
    /\ highlightedBuildings = <<>>
    /\ timers = <<>>
    /\ camera = NoFraming
    /\ buildingsGroup = <<>>
    /\ loading = FALSE
    /\ error = <<>>
    /\ heightScale = NoScale

\* ------------------------------------------------------------- server
\* any HTTP client posts a JSON body to /api/chat
HttpPost ==
    /\ req = NoRequest
    /\ \E body \in Bodies : req' = [from |-> "http", body |-> body]
    /\ res' = NoResponse
    /\ calls' = <<>>
    /\ queries' = <<>>
    /\ UNCHANGED <<store, client, view>>

\* router.post('/') testing only !message: a truthy non-string reaches
\* message.toLowerCase(), which throws, and the catch answers 500
ChatRoute_noTypeof ==
    /\ req # NoRequest
    /\ res = NoResponse
    /\ LET message == req.body.message
       IN  IF ~Truthy(message)
           THEN /\ res' = [status |-> 400,
                           json |-> [error |-> "Message is required and must be a string"]]
                /\ UNCHANGED <<calls, queries>>
           ELSE IF typeof(message) # "string"
           THEN /\ res' = [status |-> 500,
                           json |-> [error |-> "Failed to process message",
                                     message |-> "An error occurred while processing your request."]]
                /\ calls' = <<"processQuery">>
                /\ UNCHANGED queries
           ELSE \E dbOk \in BOOLEAN : \E out \in processQuery(message.v, store, dbOk) :
                /\ calls' = <<"processQuery">> \o out.calls
                /\ queries' = out.queries
                /\ res' = IF out.threw
                          THEN [status |-> 500,
                                json |-> [error |-> "Failed to process message",
                                          message |-> "An error occurred while processing your request."]]
                          ELSE [status |-> 200, json |-> out.response]
    /\ UNCHANGED <<store, req, client, view>>

\* router.post('/'): validation, processQuery, res.json; pool.query resolves
\* (dbOk) or rejects
ChatRoute ==
    /\ req # NoRequest
    /\ res = NoResponse
    /\ LET message == req.body.message
       IN  IF ~Truthy(message) \/ typeof(message) # "string"
           THEN /\ res' = [status |-> 400,
                           json |-> [error |-> "Message is required and must be a string"]]
                /\ UNCHANGED <<calls, queries>>
           ELSE \E dbOk \in BOOLEAN : \E out \in processQuery(message.v, store, dbOk) :
                /\ calls' = <<"processQuery">> \o out.calls
                /\ queries' = out.queries
                /\ res' = IF out.threw
                          THEN [status |-> 500,
                                json |-> [error |-> "Failed to process message",
                                          message |-> "An error occurred while processing your request."]]
                          ELSE [status |-> 200, json |-> out.response]
    /\ UNCHANGED <<store, req, client, view>>

\* the HTTP client reads the response
HttpReceive ==
    /\ req # NoRequest
    /\ req.from = "http"
    /\ res # NoResponse
    /\ req' = NoRequest
    /\ res' = NoResponse
    /\ calls' = <<>>
    /\ queries' = <<>>
    /\ UNCHANGED <<store, client, view>>

Next ==
    \/ HttpPost
    \/ ChatRoute
    \/ HttpReceive

Spec == Init /\ [][Next]_vars

\* ------------------------------------------------------------- buildings routes
\* JavaScript values of the query string and of what the handlers derive
Undefined ==
    [t |-> "undefined", v |-> <<>>]

Null ==
    [t |-> "null", v |-> <<>>]

Num(n) ==
    [t |-> "number", v |-> <<n>>]

NaN ==
    [t |-> "number", v |-> <<>>]

isNaN(x) ==
    x.v = <<>>

\* parseFloat(x) for a number or a string of the query string: the leading
\* decimal digits, NaN when there are none (undefined included)
parseFloat(x) ==
    IF x.t = "number" THEN x
    ELSE IF x.t = "string" /\ IsDigit(At(x.v, 1))
    THEN Num(parseInt(SubSeq(x.v, 1, DigitsEnd(x.v, 1) - 1)))
    ELSE NaN

\* parseInt(x) for a value of the query string or a default number: what
\* parseFloat gives, the strings of the model having no fraction
parseIntValue(x) ==
    parseFloat(x)

\* `${x}` for a number
NumberText(x) ==
    IF isNaN(x) THEN "NaN" ELSE ToString(x.v[1])

\* const { p = d } = req.query
Default(x, d) ==
    IF x.t = "undefined" THEN d ELSE x

\* a query of the buildings routes as handed to pool.query; limit is the row
\* count of its LIMIT clause (<<>> without one, a NaN where the clause gets
\* one), error the message of the error pool.query rejects with
ApiQuery(text, params, limit) ==
    [text |-> text, params |-> params, rejected |-> FALSE, limit |-> limit,
     error |-> ""]

\* err.message of a pool.query that rejects although the statement is valid
PoolErrors ==
    {"connect ECONNREFUSED 127.0.0.1:5432",
     "relation \"buildings\" does not exist"}

NoFailure ==
    "none"

\* catch (err) { res.status(500).json({ error: err.message }) }
Caught(route, q, message) ==
    [route |-> route,
     queries |-> <<[q EXCEPT !.rejected = TRUE, !.error = message]>>,
     status |-> 500,
     json |-> [error |-> message]]

\* a JSON array as a JavaScript value
JsArray(rows) ==
    [t |-> "array", v |-> rows]

\* res.json(body)
Json(route, q, body) ==
    [route |-> route, queries |-> <<q>>, status |-> 200, json |-> body]

\* router.get('/')
getAll(st, failure) ==
    LET route == "GET /"
        q == ApiQuery(SelectBuildings \o " ORDER BY height DESC LIMIT 1000",
                      <<>>, <<Num(1000)>>)
    IN  IF failure # NoFailure THEN {Caught(route, q, failure)}
        ELSE {Json(route, q, JsArray(Limit(rows, 1000))) : rows \in OrderByHeightDesc(st)}

\* router.get('/tallest') ordering the rows by ascending height
getTallest_ascending(st, failure) ==
    LET route == "GET /tallest"
        q == ApiQuery(SelectBuildings \o " ORDER BY height ASC LIMIT 1",
                      <<>>, <<Num(1)>>)
    IN  IF failure # NoFailure THEN {Caught(route, q, failure)}
        ELSE {Json(route, q, IF Len(rows) > 0 THEN rows[1] ELSE Null) :
                 rows \in OrderByHeightAsc(st)}

\* router.get('/tallest'): result.rows[0] || null
getTallest(st, failure) ==
    LET route == "GET /tallest"
        q == ApiQuery(SelectBuildings \o " ORDER BY height DESC LIMIT 1",
                      <<>>, <<Num(1)>>)
    IN  IF failure # NoFailure THEN {Caught(route, q, failure)}
        ELSE {Json(route, q, IF Len(rows) > 0 THEN rows[1] ELSE Null) :
                 rows \in OrderByHeightDesc(st)}

\* PostgreSQL numeric comparison with a parameter that may be NaN, which
\* sorts above every number
AtLeast(height, x) ==
    IF isNaN(x) THEN FALSE ELSE height >= x.v[1]

AtMost(height, x) ==
    IF isNaN(x) THEN TRUE ELSE height <= x.v[1]

\* router.get('/search'): the WHERE clause grows by one condition a truthy
\* parameter, LIMIT is written into the text
search(query, st, failure) ==
    LET route == "GET /search"
        limit == parseIntValue(Default(query.limit, Num(50)))
        hasType == Truthy(query.type)
        hasMin == Truthy(query.minHeight)
        hasMax == Truthy(query.maxHeight)
        text == SelectBuildings \o " WHERE 1=1"
                \o (IF hasType THEN " AND building_type ILIKE $n" ELSE "")
                \o (IF hasMin THEN " AND height >= $n" ELSE "")
                \o (IF hasMax THEN " AND height <= $n" ELSE "")
                \o " ORDER BY height DESC LIMIT " \o NumberText(limit)
        params == (IF hasType THEN <<query.type>> ELSE <<>>)
                  \o (IF hasMin THEN <<parseFloat(query.minHeight)>> ELSE <<>>)
                  \o (IF hasMax THEN <<parseFloat(query.maxHeight)>> ELSE <<>>)
        q == ApiQuery(text, params, <<limit>>)
        kept == {b \in st :
                    /\ hasType => ILIKE(b.building_type, query.type.v)
                    /\ hasMin => AtLeast(b.height, parseFloat(query.minHeight))
                    /\ hasMax => AtMost(b.height, parseFloat(query.maxHeight))}
    IN  IF failure # NoFailure THEN {Caught(route, q, failure)}
        ELSE IF isNaN(limit)
        THEN {Caught(route, q, "column \"nan\" does not exist")}
        ELSE {Json(route, q, JsArray(Limit(rows, limit.v[1]))) : rows \in OrderByHeightDesc(kept)}

\* the lists whose members are members of S, none twice
SubLists(S) ==
    UNION {AnyOrder(T) : T \in SUBSET S}

\* router.get('/nearby'): ST_DWithin around the point, nearest first, no
\* LIMIT. The model does not compute ST_DWithin, so the rows in reach
\* are any rows in any order; PostGIS either takes a NaN coordinate (lenient)
\* and finds nothing in reach, or raises an error
nearby(query, st, failure, lenient) ==
    LET route == "GET /nearby"
        params == <<parseFloat(query.lng), parseFloat(query.lat),
                    parseFloat(Default(query.radius, Num(1000)))>>
        q == ApiQuery(SelectBuildings
                      \o " WHERE ST_DWithin(geometry::geography, ST_SetSRID(ST_MakePoint($1, $2), 4326)::geography, $3) ORDER BY distance ASC",
                      params, <<>>)
    IN  IF failure # NoFailure THEN {Caught(route, q, failure)}
        ELSE IF \E k \in 1..3 : isNaN(params[k])
        THEN IF lenient THEN {Json(route, q, JsArray(<<>>))}
             ELSE {Caught(route, q, "invalid input syntax for type double precision")}
        ELSE {Json(route, q, JsArray(rows)) : rows \in SubLists(st)}

\* router.get('/statistics')
statistics(st, failure) ==
    LET route == "GET /statistics"
        q == ApiQuery("SELECT building_type, COUNT(*) as count, AVG(height) as avg_height, MAX(height) as max_height, MIN(height) as min_height FROM buildings WHERE height IS NOT NULL GROUP BY building_type ORDER BY count DESC",
                      <<>>, <<>>)
    IN  IF failure # NoFailure THEN {Caught(route, q, failure)}
        ELSE {Json(route, q, JsArray(rows)) : rows \in OrderByCountDesc(GroupByType(st))}

\* the text is a decimal integer, what the integer column id compares with
IsInteger(s) ==
    /\ Len(s) > 0
    /\ \A k \in 1..Len(s) : IsDigit(s[k])

\* router.get('/:id'): WHERE id = $1 with the path segment as it came
getById(id, st, failure) ==
    LET route == "GET /:id"
        q == ApiQuery(SelectBuildings \o " WHERE id = $1", <<JsString(id)>>, <<>>)
        rows == {b \in st : b.id = parseInt(id)}
    IN  IF failure # NoFailure THEN {Caught(route, q, failure)}
        ELSE IF ~IsInteger(id)
        THEN {Caught(route, q, "invalid input syntax for type integer")}
        ELSE IF rows = {}
        THEN {[route |-> route, queries |-> <<q>>, status |-> 404,
               json |-> [error |-> "Building not found"]]}
        ELSE {Json(route, q, b) : b \in rows}

\* router.get('/random'): ORDER BY RANDOM() LIMIT $1
random(query, st, failure) ==
    LET route == "GET /random"
        limit == parseIntValue(Default(query.limit, Num(250)))
        q == ApiQuery(SelectBuildings \o " WHERE height IS NOT NULL ORDER BY RANDOM() LIMIT $1",
                      <<limit>>, <<limit>>)
    IN  IF failure # NoFailure THEN {Caught(route, q, failure)}
        ELSE IF isNaN(limit)
        THEN {Caught(route, q, "invalid input syntax for type bigint")}
        ELSE {Json(route, q, JsArray(Limit(rows, limit.v[1]))) : rows \in AnyOrder(st)}

\* router.get('/type/:buildingType'): ILIKE $1 ORDER BY height DESC LIMIT $2
getByType(buildingType, query, st, failure) ==
    LET route == "GET /type/:buildingType"
        limit == parseIntValue(Default(query.limit, Num(100)))
        q == ApiQuery(SelectBuildings \o " WHERE building_type ILIKE $1 ORDER BY height DESC LIMIT $2",
                      <<JsString(Pattern(buildingType)), limit>>, <<limit>>)
        kept == {b \in st : ILIKE(b.building_type, Pattern(buildingType))}
    IN  IF failure # NoFailure THEN {Caught(route, q, failure)}
        ELSE IF isNaN(limit)
        THEN {Caught(route, q, "invalid input syntax for type bigint")}
        ELSE {Json(route, q, JsArray(Limit(rows, limit.v[1]))) : rows \in OrderByHeightDesc(kept)}

\* Express answers a path no route matches
NotFound ==
    [route |-> "none", queries |-> <<>>, status |-> 404, json |-> [error |-> "Cannot GET"]]

\* the router of routes/buildings.js: the first route, in the order of
\* registration, whose pattern matches the path handles the request
\* (/:id matches every single segment)
route(path, query, st, failure, lenient) ==
    IF path = <<>> THEN getAll(st, failure)
    ELSE IF path = <<<<"t", "a", "l", "l", "e", "s", "t">>>> THEN getTallest(st, failure)
    ELSE IF path = <<<<"s", "e", "a", "r", "c", "h">>>> THEN search(query, st, failure)
    ELSE IF path = <<<<"n", "e", "a", "r", "b", "y">>>> THEN nearby(query, st, failure, lenient)
    ELSE IF path = <<<<"s", "t", "a", "t", "i", "s", "t", "i", "c", "s">>>> THEN statistics(st,
          failure)
    ELSE IF Len(path) = 1 THEN getById(path[1], st, failure)
    ELSE IF path = <<<<"r", "a", "n", "d", "o", "m">>>> THEN random(query, st, failure)
    ELSE IF Len(path) = 2 /\ path[1] = <<"t", "y", "p", "e">>
    THEN getByType(path[2], query, st, failure)
    ELSE {NotFound}

\* paths below /api/buildings, as their segments
Paths ==
    {<<>>,
     <<<<"t", "a", "l", "l", "e", "s", "t">>>>,
     <<<<"s", "e", "a", "r", "c", "h">>>>,
     <<<<"n", "e", "a", "r", "b", "y">>>>,
     <<<<"s", "t", "a", "t", "i", "s", "t", "i", "c", "s">>>>,
     <<<<"r", "a", "n", "d", "o", "m">>>>,
     <<<<"1">>>>,
     <<<<"9", "9">>>>,
     <<<<"a", "b", "c">>>>,
     <<<<"t", "y", "p", "e">>, <<"h", "o", "t", "e", "l">>>>,
     <<<<"t", "y", "p", "e">>>> \o <<<<"x">>, <<"y">>>>}

NoQuery ==
    [type |-> Undefined, minHeight |-> Undefined, maxHeight |-> Undefined,
     limit |-> Undefined, lat |-> Undefined, lng |-> Undefined,
     radius |-> Undefined]

Limits ==
    {Undefined, JsString(<<"2">>), JsString(<<"a", "b", "c">>), JsString(<<"1", "0", "0", "1">>)}

\* the query strings sent with a path: the parameters its handler reads
QueriesFor(path) ==
    IF path = <<<<"s", "e", "a", "r", "c", "h">>>>
    THEN {[NoQuery EXCEPT !.type = t, !.minHeight = lo, !.maxHeight = hi, !.limit = n] :
             t \in {Undefined, JsString(<<"h", "o", "t", "e", "l">>)},
             lo \in {Undefined, JsString(<<"1", "0", "0">>), JsString(<<"a", "b", "c">>)},
             hi \in {Undefined, JsString(<<"3", "0", "0">>)},
             n \in Limits}
    ELSE IF path = <<<<"n", "e", "a", "r", "b", "y">>>>
    THEN {[NoQuery EXCEPT !.lat = lat, !.lng = lng, !.radius = r] :
             lat \in {Undefined, JsString(<<"2", "1">>), JsString(<<"a", "b", "c">>)},
             lng \in {Undefined, JsString(<<"3", "9">>)},
             r \in {Undefined, JsString(<<"5", "0", "0">>)}}
    ELSE {[NoQuery EXCEPT !.limit = n] : n \in Limits}

\* any HTTP client gets a path below /api/buildings
HttpGet ==
    /\ req = NoRequest
    /\ \E path \in Paths : \E query \in QueriesFor(path) :
           req' = [from |-> "http", method |-> "GET", path |-> path, query |-> query]
    /\ res' = NoResponse
    /\ calls' = <<>>
    /\ queries' = <<>>
    /\ UNCHANGED <<store, client, view>>

\* the router of routes/buildings.js, mounted at /api/buildings: the handler
\* of the matching route runs its query, which resolves or rejects, and
\* answers
BuildingsRouter ==
    /\ req # NoRequest
    /\ "path" \in DOMAIN req
    /\ res = NoResponse
    /\ \E failure \in PoolErrors \cup {NoFailure} : \E lenient \in BOOLEAN :
       \E out \in route(req.path, req.query, store, failure, lenient) :
           /\ calls' = <<out.route>>
           /\ queries' = out.queries
           /\ res' = [status |-> out.status, json |-> out.json]
    /\ UNCHANGED <<store, req, client, view>>

\* the router of routes/chat.js, mounted at /api/chat
ChatRouter ==
    /\ req # NoRequest
    /\ "body" \in DOMAIN req
    /\ ChatRoute

NextServer ==
    \/ HttpGet
    \/ BuildingsRouter
    \/ HttpPost
    \/ ChatRouter
    \/ HttpReceive

SpecServer == Init /\ [][NextServer]_vars

\* ------------------------------------------------------------- camera
\* const footprintSize = Math.max(footprintWidth, footprintDepth)
footprintSize(s) ==
    IF s.footprintWidth > s.footprintDepth THEN s.footprintWidth
    ELSE s.footprintDepth

\* heightScale of Map.addBuildings, in tenths
addBuildings_heightScale(size) ==
    IF size < 5 THEN 3
    ELSE IF size < 15 THEN 5
    ELSE IF size < 30 THEN 7
    ELSE 10

\* heightScale of Map.flyToBuilding with the first threshold inclusive
flyToBuilding_heightScale_inclusive(size) ==
    IF size <= 5 THEN 3
    ELSE IF size < 15 THEN 5
    ELSE IF size < 30 THEN 7
    ELSE 10

\* heightScale of Map.flyToBuilding, in tenths
flyToBuilding_heightScale(size) ==
    IF size < 5 THEN 3
    ELSE IF size < 15 THEN 5
    ELSE IF size < 30 THEN 7
    ELSE 10

\* heightScale of Map.getBuildingScreenPosition, in tenths
getBuildingScreenPosition_heightScale(size) ==
    IF size < 5 THEN 3
    ELSE IF size < 15 THEN 5
    ELSE IF size < 30 THEN 7
    ELSE 10

\* a building JSON has a Polygon geometry the rendering and framing code can
\* use: geometry.type === 'Polygon' && geometry.coordinates
ValidPolygon(b) ==
    /\ "geometry" \in DOMAIN b
    /\ b.geometry.json
    /\ b.geometry.type = "Polygon"
    /\ b.geometry.coordinates # <<>>

\* Map.bounds, in steps of 0.0004 degrees: 39.6 to 40.0 and 21.2 to 21.6
bounds ==
    [minLng |-> 99000, maxLng |-> 100000, minLat |-> 53000, maxLat |-> 54000]

\* Map.geoToScene without the shift by 500 that centres the scene
geoToScene_uncentred(lng, lat) ==
    [x |-> ((lng - bounds.minLng) * 1000) \div (bounds.maxLng - bounds.minLng),
     z |-> ((lat - bounds.minLat) * 1000) \div (bounds.maxLat - bounds.minLat)]

\* Map.geoToScene: scene units; with the steps of bounds the division is
\* exact, one step is one scene unit
geoToScene(lng, lat) ==
    [x |-> ((lng - bounds.minLng) * 1000) \div (bounds.maxLng - bounds.minLng) - 500,
     z |-> ((lat - bounds.minLat) * 1000) \div (bounds.maxLat - bounds.minLat) - 500]

\* centerPos of a building with a Polygon: the mean of the points of the
\* ring, geoToScene of it (the rings of the model have whole means)
centerPos(b) ==
    LET coords == b.geometry.coordinates
        centerLng == reduce(coords, LAMBDA sum, coord : sum + coord[1], 0) \div Len(coords)
        centerLat == reduce(coords, LAMBDA sum, coord : sum + coord[2], 0) \div Len(coords)
    IN  geoToScene(centerLng, centerLat)

\* footprintWidth and footprintDepth of a building with a Polygon: the
\* extents of geoToScene of the ring's points
footprint(b) ==
    LET coords == b.geometry.coordinates
        xs == {geoToScene(coords[i][1], coords[i][2]).x : i \in 1..Len(coords)}
        zs == {geoToScene(coords[i][1], coords[i][2]).z : i \in 1..Len(coords)}
    IN  [footprintWidth |-> (CHOOSE v \in xs : \A w \in xs : w <= v)
                              - (CHOOSE v \in xs : \A w \in xs : v <= w),
         footprintDepth |-> (CHOOSE v \in zs : \A w \in zs : w <= v)
                              - (CHOOSE v \in zs : \A w \in zs : v <= w)]

\* buildingHeight: the store's DECIMAL height arrives as a text and is
\* parsed, the model holds it in whole meters
buildingHeight(b) ==
    b.height

\* Map.flyToBuilding: the camera it leaves, given the camera before; an
\* undefined building or a geometry that does not parse throws into the catch
flyToBuilding(cam, building) ==
    IF ~ValidPolygon(building) THEN cam
    ELSE LET center == centerPos(building)
             size == footprintSize(footprint(building))
             scaledHeight == buildingHeight(building) * flyToBuilding_heightScale(size) * 2
             buildingSize == IF size * 20 > scaledHeight THEN size * 20 ELSE scaledHeight
             far == (buildingSize * 5) \div 2
         IN  [framing |-> "fly-to-single", buildings |-> <<building>>,
              target |-> [x |-> center.x * 20, y |-> scaledHeight \div 2,
                          z |-> center.z * 20],
              distance |-> IF far > 600 THEN far ELSE 600]

\* Map.fitBuildingsToView: the camera it leaves, given the camera before.
\* An empty list returns at once and a list without a valid Polygon leaves
\* minX at Infinity and returns; else the center is the middle of the
\* bounding box of the centers and the distance Math.max(maxSize * 0.3, 50)
fitBuildingsToView(cam, list) ==
    LET valid == SelectSeq(list, ValidPolygon)
        xs == {centerPos(valid[k]).x : k \in 1..Len(valid)}
        zs == {centerPos(valid[k]).z : k \in 1..Len(valid)}
        ys == {buildingHeight(valid[k]) : k \in 1..Len(valid)} \cup {0}
        minX == CHOOSE v \in xs : \A w \in xs : v <= w
        maxX == CHOOSE v \in xs : \A w \in xs : w <= v
        minZ == CHOOSE v \in zs : \A w \in zs : v <= w
        maxZ == CHOOSE v \in zs : \A w \in zs : w <= v
        maxY == CHOOSE v \in ys : \A w \in ys : w <= v
        sizeX == maxX - minX
        sizeZ == maxZ - minZ
        maxSize == CHOOSE v \in {sizeX, sizeZ, maxY} : \A w \in {sizeX, sizeZ, maxY} : w <= v
    IN  IF valid = <<>> THEN cam
        ELSE [framing |-> "fit-all", buildings |-> valid,
              target |-> [x |-> (minX + maxX) * 10, y |-> 0, z |-> (minZ + maxZ) * 10],
              distance |-> IF maxSize * 6 > 1000 THEN maxSize * 6 ELSE 1000]

\* Map.fitHighlightedBuildingsToView with the factor and floor of
\* fitBuildingsToView
fitHighlightedBuildingsToView_asFitAll(cam, list) ==
    [fitBuildingsToView(cam, list) EXCEPT
        !.framing = IF @ = "fit-all" THEN "fit-highlighted-subset" ELSE @]

\* Map.fitHighlightedBuildingsToView: the same over the highlightedBuildings
\* prop, with the distance Math.max(maxSize * 0.8, 100)
fitHighlightedBuildingsToView(cam, list) ==
    LET valid == SelectSeq(list, ValidPolygon)
        xs == {centerPos(valid[k]).x : k \in 1..Len(valid)}
        zs == {centerPos(valid[k]).z : k \in 1..Len(valid)}
        ys == {buildingHeight(valid[k]) : k \in 1..Len(valid)} \cup {0}
        minX == CHOOSE v \in xs : \A w \in xs : v <= w
        maxX == CHOOSE v \in xs : \A w \in xs : w <= v
        minZ == CHOOSE v \in zs : \A w \in zs : v <= w
        maxZ == CHOOSE v \in zs : \A w \in zs : w <= v
        maxY == CHOOSE v \in ys : \A w \in ys : w <= v
        sizeX == maxX - minX
        sizeZ == maxZ - minZ
        maxSize == CHOOSE v \in {sizeX, sizeZ, maxY} : \A w \in {sizeX, sizeZ, maxY} : w <= v
    IN  IF valid = <<>> THEN cam
        ELSE [framing |-> "fit-highlighted-subset", buildings |-> valid,
              target |-> [x |-> (minX + maxX) * 10, y |-> 0, z |-> (minZ + maxZ) * 10],
              distance |-> IF maxSize * 16 > 2000 THEN maxSize * 16 ELSE 2000]

\* ------------------------------------------------------------- client
\* input onChange / handleSuggestionClick
setInputValue ==
    /\ ~isLoading
    /\ \E text \in ClientInputs : inputValue' = text
    /\ UNCHANGED <<server, isLoading, messages, buildings, highlightedBuilding,
                   highlightedBuildings, timers, camera, view>>

\* Chatbot.sendMessage up to the fetch
sendMessage ==
    /\ ~(trim(inputValue) = <<>> \/ isLoading)
    /\ Cardinality({k \in 1..Len(messages) : messages[k].sender = "user"}) < MaxSends
    /\ messages' = Append(messages, [sender |-> "user", text |-> inputValue])
    /\ inputValue' = <<>>
    /\ isLoading' = TRUE
    /\ req' = [from |-> "chatbot", body |-> [message |-> JsString(inputValue)]]
    /\ res' = NoResponse
    /\ calls' = <<>>
    /\ queries' = <<>>
    /\ UNCHANGED <<store, buildings, highlightedBuilding, highlightedBuildings,
                   timers, camera, view>>

\* what the body of the forEach of Map.addBuildings adds to the group for one
\* building: nothing when JSON.parse throws (caught) or the geometry is no
\* Polygon with coordinates, else the mesh with its userData (buildingId,
\* isHighlighted), after its glow mesh when the building is highlighted; the
\* glow mesh is given no userData
Meshes(b, hb, hbs) ==
    LET isHighlighted == hb.id = b.id \/ \E k \in 1..Len(hbs) : hbs[k].id = b.id
        mesh == [kind |-> "building", buildingId |-> b.id, isHighlighted |-> isHighlighted]
    IN  IF ~ValidPolygon(b) THEN <<>>
        ELSE IF isHighlighted THEN <<[kind |-> "glow"], mesh>>
        ELSE <<mesh>>

\* this.props.buildings.forEach(...) of Map.addBuildings
RECURSIVE forEach(_, _, _)
forEach(list, hb, hbs) ==
    IF list = <<>> THEN <<>>
    ELSE Meshes(Head(list), hb, hbs) \o forEach(Tail(list), hb, hbs)

\* Map.addBuildings without the try/catch in the forEach body: the first
\* building whose geometry throws ends the loop
addBuildings_noCatch(group, list, hb, hbs) ==
    LET throws == {k \in 1..Len(list) :
                      "geometry" \notin DOMAIN list[k] \/ ~list[k].geometry.json}
        done == IF throws = {} THEN Len(list)
                ELSE (CHOOSE k \in throws : \A j \in throws : k <= j) - 1
    IN  IF Len(list) = 0 THEN group
        ELSE forEach(SubSeq(list, 1, done), hb, hbs)

\* Map.addBuildings: the children of buildingsGroup it leaves, given the
\* children before; an empty list returns before buildingsGroup.clear()
addBuildings(group, list, hb, hbs) ==
    IF Len(list) = 0 THEN group
    ELSE forEach(list, hb, hbs)

\* Map.updateBuildings: the framing callback it schedules after addBuildings
updateBuildings(hb, hbs) ==
    IF Len(hbs) > 0 THEN "fitHighlightedBuildingsToView"
    ELSE IF hb # NoBuilding THEN "flyToBuilding"
    ELSE "fitBuildingsToView"

\* Chatbot.sendMessage after the fetch resolved with response.ok, with
\* App.handleBuildingHighlight / handleMultiBuildingHighlight and the
\* Map.componentDidUpdate that the new props cause
sendMessageOk ==
    /\ req # NoRequest
    /\ req.from = "chatbot"
    /\ res.status = 200
    /\ LET data == res.json
           botBuildings == IF "building" \in DOMAIN data THEN <<data.building>>
                           ELSE IF "buildings" \in DOMAIN data THEN data.buildings
                           ELSE <<>>
           botMessage == [sender |-> "bot", text |-> data.content, type |-> data.type,
                          buildings |-> botBuildings]
       IN  /\ messages' = Append(messages, botMessage)
           /\ IF Len(botBuildings) = 1
              THEN /\ highlightedBuilding' = botBuildings[1]
                   /\ highlightedBuildings' = <<>>
                   /\ buildingsGroup' = addBuildings(buildingsGroup, buildings,
                                                     botBuildings[1], <<>>)
                   /\ timers' = Append(timers, updateBuildings(botBuildings[1], <<>>))
              ELSE IF Len(botBuildings) > 1
              THEN /\ highlightedBuildings' = botBuildings
                   /\ highlightedBuilding' = NoBuilding
                   /\ buildingsGroup' = addBuildings(buildingsGroup, buildings,
                                                     NoBuilding, botBuildings)
                   /\ timers' = Append(timers, updateBuildings(NoBuilding, botBuildings))
              ELSE UNCHANGED <<highlightedBuilding, highlightedBuildings, timers,
                               buildingsGroup>>
    /\ isLoading' = FALSE
    /\ req' = NoRequest
    /\ res' = NoResponse
    /\ calls' = <<>>
    /\ queries' = <<>>
    /\ UNCHANGED <<store, inputValue, buildings, camera, loading, error, heightScale>>

\* Chatbot.sendMessage whose catch does not lead to the finally block
sendMessageError_noFinally ==
    /\ req # NoRequest
    /\ req.from = "chatbot"
    /\ res.status # 200
    /\ messages' = Append(messages,
            [sender |-> "bot",
             text |-> "Sorry, I'm having trouble processing your request. Please try again."])
    /\ req' = NoRequest
    /\ res' = NoResponse
    /\ calls' = <<>>
    /\ queries' = <<>>
    /\ UNCHANGED <<store, inputValue, isLoading, buildings, highlightedBuilding,
                   highlightedBuildings, timers, camera, view>>

\* Chatbot.sendMessage when the fetch rejects or the status is not 2xx
sendMessageError ==
    /\ req # NoRequest
    /\ req.from = "chatbot"
    /\ res.status # 200
    /\ messages' = Append(messages,
            [sender |-> "bot",
             text |-> "Sorry, I'm having trouble processing your request. Please try again."])
    /\ isLoading' = FALSE
    /\ req' = NoRequest
    /\ res' = NoResponse
    /\ calls' = <<>>
    /\ queries' = <<>>
    /\ UNCHANGED <<store, inputValue, buildings, highlightedBuilding,
                   highlightedBuildings, timers, camera, view>>

\* the callback initializeMap schedules: fitBuildingsToView after 200 ms,
\* where the callbacks of updateBuildings wait 100 ms
MountTimer == "fitBuildingsToView, 200 ms"

\* a setTimeout callback of Map runs: fitHighlightedBuildingsToView,
\* flyToBuilding(this.props.highlightedBuilding) or fitBuildingsToView, each
\* reading the props of the moment it runs. The callbacks of updateBuildings
\* run in the order scheduled; the one of initializeMap waits twice as long,
\* so a callback scheduled within its first 100 ms runs before it
TimerFires ==
    /\ timers # <<>>
    /\ \E k \in 1..Len(timers) :
           /\ k = 1 \/ (k = 2 /\ timers[1] = MountTimer)
           /\ timers' = SubSeq(timers, 1, k - 1) \o SubSeq(timers, k + 1, Len(timers))
           /\ camera' =
                CASE timers[k] = "fitHighlightedBuildingsToView" ->
                       IF Len(highlightedBuildings) = 0 THEN camera
                       ELSE fitHighlightedBuildingsToView(camera, highlightedBuildings)
                  [] timers[k] = "flyToBuilding" ->
                       flyToBuilding(camera, highlightedBuilding)
                  [] OTHER ->
                       IF Len(buildings) = 0 THEN camera
                       ELSE fitBuildingsToView(camera, buildings)
    /\ UNCHANGED <<server, inputValue, isLoading, messages, buildings,
                   highlightedBuilding, highlightedBuildings, view>>

NextClient ==
    \/ setInputValue
    \/ sendMessage
    \/ ChatRoute
    \/ sendMessageOk
    \/ sendMessageError
    \/ TimerFires

SpecClient == Init /\ [][NextClient]_vars

\* the fetch of sendMessage settles: its promise resolves or rejects
SpecClientLive == SpecClient /\ WF_vars(sendMessageOk \/ sendMessageError)

\* ------------------------------------------------------------- Map
MaxTimers == 2         \* framing callbacks of Map pending at a time

\* building JSONs a parent hands to Map, one a kind of geometry: a Polygon,
\* a text that is no JSON, a second Polygon, a Point, and a Polygon without
\* its coordinates member
MapCatalog ==
    <<Catalog[1],
      [Catalog[2] EXCEPT !.geometry = NotJSON],
      Catalog[3],
      [Catalog[4] EXCEPT !.geometry = GeoJSON("Point", <<<<99500, 53900, 0>>>>)],
      [Catalog[5] EXCEPT !.geometry = GeoJSON("Polygon", <<>>)]>>

\* the building lists of the buildings prop: the sub-lists of MapCatalog
BuildingLists ==
    {filter(MapCatalog, LAMBDA b : b.id \in ids) : ids \in SUBSET {1, 2, 3, 4, 5}}

\* Map mounted by its parent: componentDidMount, initializeMap with its
\* addBuildings() and setTimeout(() => this.fitBuildingsToView(), 200)
InitMap ==
    /\ store = {}
    /\ req = NoRequest
    /\ res = NoResponse
    /\ calls = <<>>
    /\ queries = <<>>
    /\ inputValue = <<>>
    /\ isLoading = FALSE
    /\ messages = <<>>
    /\ buildings \in BuildingLists
    /\ highlightedBuilding = NoBuilding
    /\ highlightedBuildings = <<>>
    /\ timers = <<MountTimer>>
    /\ camera = NoFraming
    /\ buildingsGroup = addBuildings(<<>>, buildings, NoBuilding, <<>>)
    /\ loading = FALSE
    /\ error = <<>>
    /\ heightScale = NoScale

\* the parent renders Map with another buildings list: componentDidUpdate,
\* updateBuildings
setBuildings ==
    /\ Len(timers) < MaxTimers
    /\ \E list \in BuildingLists :
           /\ buildings' = list
           /\ buildingsGroup' = addBuildings(buildingsGroup, list, highlightedBuilding,
                                             highlightedBuildings)
    /\ timers' = Append(timers, updateBuildings(highlightedBuilding, highlightedBuildings))
    /\ UNCHANGED <<server, inputValue, isLoading, messages, highlightedBuilding,
                   highlightedBuildings, camera, loading, error, heightScale>>

\* App.handleBuildingHighlight, then Map.componentDidUpdate, updateBuildings
handleBuildingHighlight ==
    /\ Len(timers) < MaxTimers
    /\ \E building \in {MapCatalog[1], MapCatalog[2]} :
           /\ highlightedBuilding' = building
           /\ highlightedBuildings' = <<>>
           /\ buildingsGroup' = addBuildings(buildingsGroup, buildings, building, <<>>)
           /\ timers' = Append(timers, updateBuildings(building, <<>>))
    /\ UNCHANGED <<server, inputValue, isLoading, messages, buildings, camera,
                   loading, error, heightScale>>

\* the lists a chat answer highlights together: two buildings of the
\* catalogue with a Polygon, two without a usable geometry, or the first two
\* or more buildings of the list Map shows
HighlightLists ==
    {<<MapCatalog[1], MapCatalog[3]>>, <<MapCatalog[2], MapCatalog[5]>>}
        \cup {SubSeq(buildings, 1, n) : n \in 2..Len(buildings)}

\* App.handleMultiBuildingHighlight, then Map.componentDidUpdate,
\* updateBuildings
handleMultiBuildingHighlight ==
    /\ Len(timers) < MaxTimers
    /\ \E list \in HighlightLists :
           /\ highlightedBuildings' = list
           /\ highlightedBuilding' = NoBuilding
           /\ buildingsGroup' = addBuildings(buildingsGroup, buildings, NoBuilding, list)
           /\ timers' = Append(timers, updateBuildings(NoBuilding, list))
    /\ UNCHANGED <<server, inputValue, isLoading, messages, buildings, camera,
                   loading, error, heightScale>>

NextMap ==
    \/ setBuildings
    \/ handleBuildingHighlight
    \/ handleMultiBuildingHighlight
    \/ TimerFires

SpecMap == InitMap /\ [][NextMap]_vars

\* ------------------------------------------------------------- App
\* App mounted: loading is true and the effect has called fetchBuildings,
\* whose fetch of /api/buildings is in flight
InitApp ==
    /\ store \in Stores
    /\ req = [from |-> "app", method |-> "GET", path |-> <<>>, query |-> NoQuery]
    /\ res = NoResponse
    /\ calls = <<>>
    /\ queries = <<>>
    /\ inputValue = <<>>
    /\ isLoading = FALSE
    /\ messages = <<>>
    /\ buildings = <<>>
    /\ highlightedBuilding = NoBuilding
    /\ highlightedBuildings = <<>>
    /\ timers = <<>>
    /\ camera = NoFraming
    /\ buildingsGroup = <<>>
    /\ loading = TRUE
    /\ error = <<>>
    /\ heightScale = NoScale

\* the Try Again button of the error view: fetchBuildings up to the fetch
fetchBuildings ==
    /\ ~loading
    /\ error # <<>>
    /\ loading' = TRUE
    /\ req' = [from |-> "app", method |-> "GET", path |-> <<>>, query |-> NoQuery]
    /\ res' = NoResponse
    /\ calls' = <<>>
    /\ queries' = <<>>
    /\ UNCHANGED <<store, client, buildingsGroup, error, heightScale>>

\* fetchBuildings after the fetch resolved: with response.ok the list is set
\* and the error cleared, and App renders the main view, which mounts Map
\* (initializeMap); without it the catch sets the error; finally loading is
\* reset
fetchBuildingsResolved ==
    /\ req.from = "app"
    /\ res # NoResponse
    /\ IF res.status = 200
       THEN /\ buildings' = res.json.v
            /\ error' = <<>>
            /\ buildingsGroup' = addBuildings(<<>>, res.json.v, highlightedBuilding,
                                              highlightedBuildings)
            /\ timers' = <<MountTimer>>
       ELSE /\ error' = <<"Failed to load building data. Please check your connection and try again.">>
            /\ UNCHANGED <<buildings, buildingsGroup, timers>>
    /\ loading' = FALSE
    /\ req' = NoRequest
    /\ res' = NoResponse
    /\ calls' = <<>>
    /\ queries' = <<>>
    /\ UNCHANGED <<store, inputValue, isLoading, messages, highlightedBuilding,
                   highlightedBuildings, camera, heightScale>>

\* fetchBuildings whose catch does not lead to the finally block
fetchBuildingsRejected_noFinally ==
    /\ req.from = "app"
    /\ res = NoResponse
    /\ error' = <<"Failed to load building data. Please check your connection and try again.">>
    /\ req' = NoRequest
    /\ UNCHANGED <<store, res, calls, queries, client, buildingsGroup, loading,
                   heightScale>>

\* fetchBuildings after the fetch rejected (no response): catch, finally
fetchBuildingsRejected ==
    /\ req.from = "app"
    /\ res = NoResponse
    /\ error' = <<"Failed to load building data. Please check your connection and try again.">>
    /\ loading' = FALSE
    /\ req' = NoRequest
    /\ UNCHANGED <<store, res, calls, queries, client, buildingsGroup, heightScale>>

\* Map.onMouseDown with a ray that meets an object of the buildings group
\* first: buildingId is parseInt of the object's userData.buildingId (NaN
\* for an object without one) and the building is the first of the list
\* with that id; if there is one, onBuildingClick, which is
\* App.handleBuildingHighlight and leads to componentDidUpdate and
\* updateBuildings, and flyToBuilding at once; else nothing happens
onMouseDown ==
    /\ ~loading
    /\ error = <<>>
    /\ Len(timers) < MaxTimers
    /\ \E j \in 1..Len(buildingsGroup) :
           LET clickedObject == buildingsGroup[j]
               found == {k \in 1..Len(buildings) :
                            /\ "buildingId" \in DOMAIN clickedObject
                            /\ buildings[k].id = clickedObject.buildingId}
           IN  IF found = {}
               THEN UNCHANGED <<highlightedBuilding, highlightedBuildings,
                                buildingsGroup, timers, camera>>
               ELSE LET building == buildings[CHOOSE k \in found :
                                                  \A i \in found : k <= i]
                    IN  /\ highlightedBuilding' = building
                        /\ highlightedBuildings' = <<>>
                        /\ buildingsGroup' = addBuildings(buildingsGroup, buildings,
                                                          building, <<>>)
                        /\ timers' = Append(timers, updateBuildings(building, <<>>))
                        /\ camera' = flyToBuilding(camera, building)
    /\ UNCHANGED <<server, inputValue, isLoading, messages, buildings, loading, error,
                   heightScale>>

NextApp ==
    \/ BuildingsRouter
    \/ fetchBuildingsResolved
    \/ fetchBuildingsRejected
    \/ fetchBuildings
    \/ onMouseDown
    \/ TimerFires

SpecApp == InitApp /\ [][NextApp]_vars

\* a fetch settles: its promise resolves or rejects
SpecAppLive == SpecApp /\ WF_vars(fetchBuildingsResolved \/ fetchBuildingsRejected)

\* ------------------------------------------------------------- App and chat
\* App in its main view: the building list has been fetched from the store
\* (rows in the order of their id), Map and Chatbot are mounted
InitMain ==
    /\ store \in Stores
    /\ req = NoRequest
    /\ res = NoResponse
    /\ calls = <<>>
    /\ queries = <<>>
    /\ inputValue = <<>>
    /\ isLoading = FALSE
    /\ messages = <<[sender |-> "bot",
                     text |-> "Hello! I can help you analyze building data. Ask me about the tallest buildings, search by type, or get detailed statistics."]>>
    /\ buildings = filter(Catalog, LAMBDA b : b \in store)
    /\ highlightedBuilding = NoBuilding
    /\ highlightedBuildings = <<>>
    /\ timers = <<MountTimer>>
    /\ camera = NoFraming
    /\ buildingsGroup = addBuildings(<<>>, buildings, NoBuilding, <<>>)
    /\ loading = FALSE
    /\ error = <<>>
    /\ heightScale = NoScale

\* a click on a building of a result list with an App.handleBuildingHighlight
\* that does not clear the multi-building highlight
resultClick_keepMulti ==
    /\ Len(timers) < MaxTimers
    /\ \E k \in 1..Len(messages) :
           /\ "type" \in DOMAIN messages[k]
           /\ messages[k].type = "search_results"
           /\ \E i \in 1..Len(messages[k].buildings) :
                  LET building == messages[k].buildings[i]
                  IN  /\ highlightedBuilding' = building
                      /\ buildingsGroup' = addBuildings(buildingsGroup, buildings,
                                                        building, highlightedBuildings)
                      /\ timers' = Append(timers, updateBuildings(building,
                                                                  highlightedBuildings))
    /\ UNCHANGED <<server, inputValue, isLoading, messages, buildings, camera,
                   highlightedBuildings, loading, error, heightScale>>

\* a click on a building of a result list of the conversation:
\* onBuildingHighlight(building), which is App.handleBuildingHighlight and
\* leads to Map.componentDidUpdate and updateBuildings
resultClick ==
    /\ Len(timers) < MaxTimers
    /\ \E k \in 1..Len(messages) :
           /\ "type" \in DOMAIN messages[k]
           /\ messages[k].type = "search_results"
           /\ \E i \in 1..Len(messages[k].buildings) :
                  LET building == messages[k].buildings[i]
                  IN  /\ highlightedBuilding' = building
                      /\ highlightedBuildings' = <<>>
                      /\ buildingsGroup' = addBuildings(buildingsGroup, buildings,
                                                        building, <<>>)
                      /\ timers' = Append(timers, updateBuildings(building, <<>>))
    /\ UNCHANGED <<server, inputValue, isLoading, messages, buildings, camera,
                   loading, error, heightScale>>

MaxAsks == 1           \* chat messages the user sends between the clicks

\* the steps of the main view; a framing callback is due 100 or 200 ms after
\* it was scheduled and is taken to run before the next event of the user
\* or of the network
NextMain ==
    \/ TimerFires
    \/ timers = <<>> /\ setInputValue
    \/ /\ timers = <<>>
       /\ Cardinality({k \in 1..Len(messages) : messages[k].sender = "user"}) < MaxAsks
       /\ sendMessage
    \/ timers = <<>> /\ ChatRoute
    \/ timers = <<>> /\ sendMessageOk
    \/ timers = <<>> /\ sendMessageError
    \/ timers = <<>> /\ resultClick
    \/ timers = <<>> /\ onMouseDown

SpecMain == InitMain /\ [][NextMain]_vars

\* the props highlightedBuilding and highlightedBuildings that App gives Map
\* in its main view: its state highlightedBuilding, a building or undefined,
\* and its state highlightedBuildings, an array at all times
MapProps ==
    [highlightedBuilding |-> IF highlightedBuilding = NoBuilding THEN Undefined
                             ELSE [t |-> "object", v |-> <<highlightedBuilding>>],
     highlightedBuildings |-> [t |-> "object", v |-> highlightedBuildings]]

\* the condition of Map.render for the anchored building info card:
\* props.highlightedBuilding && !props.highlightedBuildings
infoCard(props) ==
    Truthy(props.highlightedBuilding) /\ ~Truthy(props.highlightedBuildings)

\* ------------------------------------------------------------- framing
MaxFit == 3            \* buildings of the list Map frames

\* centers of footprints: the south-west corner of Map.bounds, a place
\* inside near it, the other three corners, a place west of the bounds and a
\* place north of them
Places ==
    <<<<bounds.minLng, bounds.minLat>>, <<99050, 53050>>,
      <<bounds.maxLng, bounds.minLat>>, <<bounds.maxLng, bounds.maxLat>>,
      <<bounds.minLng, bounds.maxLat>>, <<98900, 53500>>, <<99500, 54100>>>>

\* Map mounted with a list of up to MaxFit buildings, the k-th being row k of
\* the catalogue with its footprint around a place of Places, no two
\* buildings at one place; the heights are those of the catalogue or, for a
\* low-rise quarter, a tenth of them
InitFit ==
    /\ store = {}
    /\ req = NoRequest
    /\ res = NoResponse
    /\ calls = <<>>
    /\ queries = <<>>
    /\ inputValue = <<>>
    /\ isLoading = FALSE
    /\ messages = <<>>
    /\ \E S \in SUBSET (1..Len(Places)) : \E lowRise \in BOOLEAN :
           /\ Cardinality(S) <= MaxFit
           /\ LET n == Cardinality(S)
                  at == CHOOSE f \in [1..n -> S] : \A i, j \in 1..n : i < j => f[i] < f[j]
              IN  buildings = [k \in 1..n |->
                                  [Catalog[k] EXCEPT
                                      !.height = IF lowRise THEN @ \div 10 ELSE @,
                                      !.geometry =
                                          GeoJSON("Polygon", Ring(Places[at[k]][1] - 2,
                                                                  Places[at[k]][2] - 2))]]
    /\ highlightedBuilding = NoBuilding
    /\ highlightedBuildings = <<>>
    /\ timers = <<MountTimer>>
    /\ camera = NoFraming
    /\ buildingsGroup = addBuildings(<<>>, buildings, NoBuilding, <<>>)
    /\ loading = FALSE
    /\ error = <<>>
    /\ heightScale = NoScale

\* the Fit All Buildings button of Map: fitBuildingsToView at once
fitAllButton ==
    /\ camera' = fitBuildingsToView(camera, buildings)
    /\ UNCHANGED <<server, inputValue, isLoading, messages, buildings,
                   highlightedBuilding, highlightedBuildings, timers, view>>

\* the Reset View button of Map
resetViewButton ==
    /\ camera' = [NoFraming EXCEPT !.framing = "reset"]
    /\ UNCHANGED <<server, inputValue, isLoading, messages, buildings,
                   highlightedBuilding, highlightedBuildings, timers, view>>

NextFit ==
    \/ handleMultiBuildingHighlight
    \/ onMouseDown
    \/ fitAllButton
    \/ resetViewButton
    \/ TimerFires

SpecFit == InitFit /\ [][NextFit]_vars

\* ------------------------------------------------------------- height scale
MaxFootprint == 31     \* width and depth of a footprint, in scene units

\* a building whose footprint has been measured, no scale computed yet
InitScale ==
    /\ store = {}
    /\ req = NoRequest
    /\ res = NoResponse
    /\ calls = <<>>
    /\ queries = <<>>
    /\ inputValue = <<>>
    /\ isLoading = FALSE
    /\ messages = <<>>
    /\ buildings = <<>>
    /\ highlightedBuilding = NoBuilding
    /\ highlightedBuildings = <<>>
    /\ timers = <<>>
    /\ camera = NoFraming
    /\ buildingsGroup = <<>>
    /\ loading = FALSE
    /\ error = <<>>
    /\ \E w, d \in 0..MaxFootprint :
           heightScale = [NoScale EXCEPT !.footprintWidth = w, !.footprintDepth = d]

\* Map.addBuildings computes the scale of the building
addBuildingsScale ==
    /\ heightScale.addBuildings = <<>>
    /\ heightScale' = [heightScale EXCEPT
                          !.addBuildings =
                              <<addBuildings_heightScale(footprintSize(heightScale))>>]
    /\ UNCHANGED <<server, client, buildingsGroup, loading, error>>

\* Map.flyToBuilding computes the scale of the building
flyToBuildingScale ==
    /\ heightScale.flyToBuilding = <<>>
    /\ heightScale' = [heightScale EXCEPT
                          !.flyToBuilding =
                              <<flyToBuilding_heightScale(footprintSize(heightScale))>>]
    /\ UNCHANGED <<server, client, buildingsGroup, loading, error>>

\* Map.getBuildingScreenPosition computes the scale of the building
getBuildingScreenPositionScale ==
    /\ heightScale.getBuildingScreenPosition = <<>>
    /\ heightScale' = [heightScale EXCEPT
                          !.getBuildingScreenPosition =
                              <<getBuildingScreenPosition_heightScale(
                                    footprintSize(heightScale))>>]
    /\ UNCHANGED <<server, client, buildingsGroup, loading, error>>

NextScale ==
    \/ addBuildingsScale
    \/ flyToBuildingScale
    \/ getBuildingScreenPositionScale

SpecScale == InitScale /\ [][NextScale]_vars

\* ------------------------------------------------------------- properties
\* the message of the request being handled, as sent and lower-cased
Msg == req.body.message.v
LowerMsg == toLowerCase(Msg)

\* processQuery ran for the request and the route answered with its result
Answered == res.status = 200

\* the handler processQuery dispatched to
Dispatched(handler) == calls = <<"processQuery", handler>>

\* the classifier table of the specification: priority order, handler, and
\* the substrings that trigger it (all of `all` and one of `any`)
IntentTable ==
    <<
      [handler |-> "getTallestBuilding",
       all |-> {},
       any |-> {<<"t", "a", "l", "l", "e", "s", "t">>, <<"h", "i", "g", "h", "e", "s",
                "t">>, <<"m", "a", "x", "i", "m", "u", "m", " ", "h", "e", "i", "g", "h",
                "t">>}],
      [handler |-> "getShortestBuilding",
       all |-> {},
       any |-> {<<"s", "h", "o", "r", "t", "e", "s", "t">>, <<"l", "o", "w", "e", "s",
                "t">>, <<"m", "i", "n", "i", "m", "u", "m", " ", "h", "e", "i", "g", "h",
                "t">>}],
      [handler |-> "getTopBuildings",
       all |-> {<<"t", "o", "p">>},
       any |-> {<<"b", "u", "i", "l", "d", "i", "n", "g", "s">>, <<"t", "a", "l", "l",
                "e", "s", "t">>}],
      [handler |-> "compareBuildings",
       all |-> {},
       any |-> {<<"c", "o", "m", "p", "a", "r", "e">>, <<"d", "i", "f", "f", "e", "r",
                "e", "n", "c", "e">>, <<"v", "s">>, <<"v", "e", "r", "s", "u", "s">>}],
      [handler |-> "getHeightRangeAnalysis",
       all |-> {},
       any |-> {<<"h", "e", "i", "g", "h", "t", " ", "r", "a", "n", "g", "e">>, <<"b",
                "e", "t", "w", "e", "e", "n">>, <<"t", "a", "l", "l", " ", "b", "u", "i",
                "l", "d", "i", "n", "g", "s">>, <<"s", "k", "y", "s", "c", "r", "a", "p",
                "e", "r", "s">>}],
      [handler |-> "getBuildingTypeAnalysis",
       all |-> {<<"t", "y", "p", "e">>},
       any |-> {<<"d", "i", "s", "t", "r", "i", "b", "u", "t", "i", "o", "n">>, <<"b",
                "r", "e", "a", "k", "d", "o", "w", "n">>, <<"c", "a", "t", "e", "g", "o",
                "r", "y">>}],
      [handler |-> "searchBuildings",
       all |-> {},
       any |-> {<<"s", "e", "a", "r", "c", "h">>, <<"f", "i", "n", "d">>, <<"s", "h", "o",
                "w">>, <<"l", "i", "s", "t">>}],
      [handler |-> "getBuildingStatistics",
       all |-> {},
       any |-> {<<"s", "t", "a", "t", "i", "s", "t", "i", "c", "s">>, <<"s", "t", "a",
                "t", "s">>, <<"s", "u", "m", "m", "a", "r", "y">>, <<"o", "v", "e", "r",
                "v", "i", "e", "w">>}],
      [handler |-> "getNearbyBuildings",
       all |-> {},
       any |-> {<<"n", "e", "a", "r">>, <<"a", "r", "o", "u", "n", "d">>, <<"w", "i", "t",
                "h", "i", "n">>, <<"d", "i", "s", "t", "a", "n", "c", "e">>}],
      [handler |-> "getSpecificBuilding",
       all |-> {},
       any |-> {<<"e", "m", "p", "i", "r", "e", " ", "s", "t", "a", "t", "e">>, <<"w",
                "o", "r", "l", "d", " ", "t", "r", "a", "d", "e">>, <<"c", "h", "r", "y",
                "s", "l", "e", "r">>}],
      [handler |-> "searchByAddress",
       all |-> {},
       any |-> {<<"a", "d", "d", "r", "e", "s", "s">>, <<"l", "o", "c", "a", "t", "i",
                "o", "n">>, <<"s", "t", "r", "e", "e", "t">>}],
      [handler |-> "getBuildingCount",
       all |-> {},
       any |-> {<<"h", "o", "w", " ", "m", "a", "n", "y">>, <<"c", "o", "u", "n", "t">>,
                <<"t", "o", "t", "a", "l", " ", "n", "u", "m", "b", "e", "r">>}]
    >>

IntentTriggered(lower, k) ==
    /\ \A a \in IntentTable[k].all : includes(lower, a)
    /\ \E x \in IntentTable[k].any : includes(lower, x)

\* the first intent of the table from k on that the message triggers, 0 if none
RECURSIVE FirstIntentFrom(_, _)
FirstIntentFrom(lower, k) ==
    IF k > Len(IntentTable) THEN 0
    ELSE IF IntentTriggered(lower, k) THEN k
    ELSE FirstIntentFrom(lower, k + 1)

FirstIntent(lower) == FirstIntentFrom(lower, 1)

NamesIn(lower) == filter(buildingNames, LAMBDA name : includes(lower, name))
KeywordsIn(lower) == filter(addressKeywords, LAMBDA keyword : includes(lower, keyword))

\* C2 (as claimed): handling a chat message classified to one of the twelve
\* intents issues exactly one SQL query, never zero and never more.
C2_ExactlyOneQuery ==
    (Answered /\ Len(calls) = 2) => Len(queries) = 1

\* C2 (amended): handling a chat message issues at most one SQL query; it
\* issues none for the nearby intent, for a compare message naming fewer than
\* two known buildings, for an address message without a street keyword and
\* for the help text, and exactly one in every other case.
C2_AtMostOneQuery ==
    /\ Len(queries) <= 1
    /\ Answered =>
         LET none == \/ calls = <<"processQuery">>
                     \/ Dispatched("getNearbyBuildings")
                     \/ Dispatched("compareBuildings") /\ Len(NamesIn(LowerMsg)) < 2
                     \/ Dispatched("searchByAddress") /\ Len(KeywordsIn(LowerMsg)) = 0
         IN  Len(queries) = IF none THEN 0 ELSE 1

C2_Witness ==
    /\ Answered
    /\ Dispatched("getNearbyBuildings")
    /\ queries = <<>>
    /\ res.json.type = "text"

Apologies ==
    {"Sorry, I encountered an error while searching for the tallest building.",
     "Sorry, I encountered an error while searching for the shortest building.",
     "Sorry, I encountered an error while retrieving the top buildings.",
     "Sorry, I encountered an error while comparing buildings.",
     "Sorry, I encountered an error while analyzing height ranges.",
     "Sorry, I encountered an error while analyzing building types.",
     "Sorry, I encountered an error while searching for buildings.",
     "Sorry, I encountered an error while retrieving building statistics.",
     "Sorry, I encountered an error while searching for the building.",
     "Sorry, I encountered an error while searching by address.",
     "Sorry, I encountered an error while counting buildings."}

StoreFailed == \E k \in 1..Len(queries) : queries[k].rejected

\* C3: when the store query fails in an intent handler, processQuery does not
\* throw: POST /api/chat answers 200 with a response of type 'text', an
\* apology as content and neither a building nor a buildings field.
C3_StoreFailureIsApology ==
    (res # NoResponse /\ StoreFailed) =>
        /\ res.status = 200
        /\ DOMAIN res.json = {"type", "content"}
        /\ res.json.type = "text"
        /\ res.json.content.text \in Apologies

C3_Witness ==
    /\ StoreFailed
    /\ Dispatched("getTallestBuilding")
    /\ res.status = 200
    /\ res.json.content.text \in Apologies

\* C4: the type tag of every response of processQuery agrees with its
\* payload: 'text' has neither building nor buildings, 'building_highlight'
\* has one building in building, 'search_results' has a buildings list and no
\* building.
C4_TypeMatchesPayload ==
    Answered =>
        LET r == res.json
        IN  /\ r.type \in {"text", "building_highlight", "search_results"}
            /\ r.type = "text" => DOMAIN r = {"type", "content"}
            /\ r.type = "building_highlight" =>
                   DOMAIN r = {"type", "content", "building"} /\ r.building \in store
            /\ r.type = "search_results" =>
                   /\ DOMAIN r = {"type", "content", "buildings"}
                   /\ \A k \in 1..Len(r.buildings) : r.buildings[k] \in store

C4_Witness ==
    /\ Answered
    /\ Dispatched("getTopBuildings")
    /\ res.json.type = "search_results"
    /\ Len(res.json.buildings) >= 2

\* C5 (as claimed): the client frames the camera by the type tag of the chat
\* response: once the response is handled and the framing callbacks have run,
\* a building_highlight response has led to fly-to-single on its building and
\* a search_results response carrying buildings to fit-highlighted-subset
\* over them, whatever their number.
C5_FramingByTypeTag ==
    (~isLoading /\ timers = <<>> /\ "type" \in DOMAIN messages[Len(messages)]) =>
        LET m == messages[Len(messages)]
        IN  /\ m.type = "building_highlight" =>
                   /\ camera.framing = "fly-to-single"
                   /\ camera.buildings = m.buildings
            /\ (m.type = "search_results" /\ Len(m.buildings) > 0) =>
                   /\ camera.framing = "fit-highlighted-subset"
                   /\ camera.buildings = m.buildings

\* C6 (as claimed): in the search intent the height phrase selects the
\* comparator: 'A to B m' keeps A <= height <= B, 'over N m' keeps height > N,
\* 'under N m' keeps height < N, a bare 'N m' keeps height = N; every
\* building returned satisfies the selected comparator.
C6_HeightComparator ==
    (Answered /\ Dispatched("searchBuildings") /\ res.json.type = "search_results") =>
        LET range == match(LowerMsg, HeightRangeAt)
            over == match(LowerMsg, OverHeightAt)
            under == match(LowerMsg, UnderHeightAt)
            bare == match(LowerMsg, SingleHeightAt)
        IN  \A k \in 1..Len(res.json.buildings) :
                LET h == res.json.buildings[k].height
                IN  IF range.found
                    THEN parseInt(range.groups[1]) <= h /\ h <= parseInt(range.groups[2])
                    ELSE IF over.found THEN h > parseInt(over.groups[1])
                    ELSE IF under.found THEN h < parseInt(under.groups[1])
                    ELSE IF bare.found THEN h = parseInt(bare.groups[1])
                    ELSE TRUE

\* C7 (as claimed): a compare message naming two known buildings that are
\* both in the store is answered with type search_results, exactly two
\* buildings, one per name, and a height difference of abs(h1 - h2) of those
\* two, whatever else the store holds.
C7_CompareTwoBuildings ==
    LET names == NamesIn(LowerMsg)
        named(b, k) == includes(toLowerCase(b.name), names[k])
    IN  (/\ Answered
         /\ Dispatched("compareBuildings")
         /\ ~StoreFailed
         /\ Len(names) = 2
         /\ \A k \in 1..2 : \E b \in store : named(b, k)) =>
            /\ res.json.type = "search_results"
            /\ Len(res.json.buildings) = 2
            /\ \E b1, b2 \in store :
                 /\ named(b1, 1) /\ named(b2, 2)
                 /\ {res.json.buildings[k] : k \in 1..2} = {b1, b2}
                 /\ res.json.content.heightDiff = Abs(b1.height - b2.height)

\* C8 (as claimed): a message that contains a name of the known-name list
\* (empire state, world trade, chrysler, bank of america, new york times) and
\* no trigger of the nine intents before it is classified as
\* specific-building, and the contained name is the one looked up.
C8_KnownNameIsSpecificBuilding ==
    (/\ Answered
     /\ Len(NamesIn(LowerMsg)) > 0
     /\ \A k \in 1..9 : ~IntentTriggered(LowerMsg, k)) =>
        /\ Dispatched("getSpecificBuilding")
        /\ \E n \in 1..Len(NamesIn(LowerMsg)) :
               queries[1].params = <<Pattern(NamesIn(LowerMsg)[n])>>

\* "top", white space and a digit stand at position i
TopNumberAt(lower, i) ==
    /\ StartsAt(lower, i, <<"t", "o", "p">>)
    /\ IsSpace(At(lower, i + 3))
    /\ IsDigit(At(lower, SkipSpaces(lower, i + 3)))

\* the integer following the first "top" that has one, else 5
ExpectedLimit(lower) ==
    LET at == {i \in 1..Len(lower) : TopNumberAt(lower, i)}
    IN  IF at = {} THEN 5
        ELSE LET i == CHOOSE x \in at : \A y \in at : x <= y
                 j == SkipSpaces(lower, i + 3)
             IN  parseInt(SubSeq(lower, j, DigitsEnd(lower, j) - 1))

\* C9: for a message classified as top-N the limit bound into the query is the
\* integer that follows "top" and white space, or 5 when there is none
\* ("show me top 12 buildings": 12, "top buildings": 5), and the response
\* lists at most N buildings, in descending height.
C9_TopLimit ==
    (Answered /\ Dispatched("getTopBuildings")) =>
        LET lower == LowerMsg
            n == ExpectedLimit(lower)
        IN  /\ Len(queries) = 1 /\ queries[1].params = <<n>>
            /\ Msg = <<"s", "h", "o", "w", " ", "m", "e", " ", "t", "o", "p", " ", "1",
                       "2", " ", "b", "u", "i", "l", "d", "i", "n", "g", "s">> => n = 12
            /\ Msg = <<"t", "o", "p", " ", "b", "u", "i", "l", "d", "i", "n", "g", "s">>
                   => n = 5
            /\ res.json.type = "search_results" =>
                   /\ Len(res.json.buildings) <= n
                   /\ \A i, j \in 1..Len(res.json.buildings) :
                          i < j => res.json.buildings[i].height >= res.json.buildings[j].height
                   /\ \A b \in store :
                          (\A i \in 1..Len(res.json.buildings) : res.json.buildings[i] # b)
                              => /\ Len(res.json.buildings) = n
                                 /\ b.height <= res.json.buildings[n].height

C9_Witness ==
    /\ Answered
    /\ Dispatched("getTopBuildings")
    /\ Msg = <<"s", "h", "o", "w", " ", "m", "e", " ", "t", "o", "p", " ", "1",
               "2", " ", "b", "u", "i", "l", "d", "i", "n", "g", "s">>
    /\ queries[1].params = <<12>>
    /\ res.json.type = "search_results"
    /\ Len(res.json.buildings) >= 2

\* C10: POST /api/chat answers 400 with a JSON error when the message of the
\* body is missing or is not a string, and then neither the classifier nor
\* the store is called.
C10_BadMessageIs400 ==
    (req # NoRequest /\ res # NoResponse /\ req.body.message.t # "string") =>
        /\ res.status = 400
        /\ "error" \in DOMAIN res.json
        /\ calls = <<>>
        /\ queries = <<>>

C10_Witness ==
    /\ req # NoRequest
    /\ req.body.message.t = "number"
    /\ req.body.message.v = <<123>>
    /\ res.status = 400
    /\ calls = <<>>

\* the route of routes/buildings.js that served the request
Served(r) == calls = <<r>>

\* C11: for a non-empty store GET /api/buildings/tallest returns a building
\* of maximum height, and a chat message classified as shortest gets a
\* building of minimum height with type building_highlight; for an empty
\* store the endpoint returns null and the chat answers with a text response
\* (the store query succeeding in both).
C11_TallestAndShortest ==
    /\ (Served("GET /tallest") /\ res.status = 200) =>
           IF store = {} THEN res.json = Null
           ELSE /\ res.json \in store
                /\ \A b \in store : res.json.height >= b.height
    /\ (Dispatched("getShortestBuilding") /\ Answered /\ ~StoreFailed) =>
           IF store = {}
           THEN res.json.type = "text" /\ "building" \notin DOMAIN res.json
           ELSE /\ res.json.type = "building_highlight"
                /\ res.json.building \in store
                /\ \A b \in store : res.json.building.height <= b.height

C11_Witness ==
    /\ Served("GET /tallest")
    /\ res.status = 200
    /\ Cardinality(store) >= 2
    /\ res.json \in store

\* C12 (as claimed): every static path (tallest, search, nearby, statistics,
\* random) is served by its own handler and never by the by-id handler, and
\* GET /api/buildings/random?limit=L answers, the store query succeeding,
\* with a list of at most L buildings of the store.
C12_StaticPathsOwnHandler ==
    LET static == {<<"t", "a", "l", "l", "e", "s", "t">>, <<"s", "e", "a", "r", "c", "h">>,
          <<"n", "e", "a", "r", "b", "y">>, <<"s", "t", "a", "t", "i", "s", "t", "i", "c", "s">>,
                   <<"r", "a", "n", "d", "o", "m">>}
        limit == parseIntValue(Default(req.query.limit, Num(250)))
    IN  (res # NoResponse /\ "path" \in DOMAIN req) =>
            /\ (Len(req.path) = 1 /\ req.path[1] \in static) => ~Served("GET /:id")
            /\ req.path = <<<<"r", "a", "n", "d", "o", "m">>>> =>
                   /\ Served("GET /random")
                   /\ (~isNaN(limit) /\ ~StoreFailed) =>
                          /\ res.status = 200
                          /\ Len(res.json.v) <= limit.v[1]
                          /\ \A k \in 1..Len(res.json.v) : res.json.v[k] \in store

\* C13 (as claimed): no list-returning endpoint (GET /api/buildings, /search,
\* /nearby, /random, /type/:buildingType) answers with more than 1000
\* buildings whatever the store holds and whatever the request parameters
\* are, that is, the statement it runs has a LIMIT of at most 1000 rows, and
\* GET /api/buildings returns the buildings in descending height.
C13_AtMost1000Rows ==
    LET lists == {"GET /", "GET /search", "GET /nearby", "GET /random",
                  "GET /type/:buildingType"}
    IN  (res.status = 200 /\ \E r \in lists : Served(r)) =>
            /\ Len(res.json.v) <= 1000
            /\ queries[1].limit # <<>>
            /\ ~isNaN(queries[1].limit[1])
            /\ queries[1].limit[1].v[1] <= 1000
            /\ Served("GET /") =>
                   \A j, k \in 1..Len(res.json.v) :
                       j < k => res.json.v[j].height >= res.json.v[k].height

\* C14 (as claimed): when a store query fails inside a buildings endpoint,
\* the response is a 5xx whose body is a generic message that carries
\* nothing of the store's error detail.
C14_GenericErrorBody ==
    (res # NoResponse /\ "path" \in DOMAIN req /\ StoreFailed) =>
        /\ res.status \in 500..599
        /\ res.json.error # queries[1].error

\* the value was sent and is not a number
NonNumeric(x) ==
    x.t # "undefined" /\ isNaN(parseFloat(x))

\* C15 (as claimed): a request with malformed input (/nearby without numeric
\* lat or lng, /search with a non-numeric limit, minHeight or maxHeight,
\* /:id with a non-integer id, POST /api/chat without a message) is answered
\* with a 4xx status and a JSON error, never with 5xx.
C15_MalformedInputIs4xx ==
    LET static == {<<"t", "a", "l", "l", "e", "s", "t">>, <<"s", "e", "a", "r", "c", "h">>,
          <<"n", "e", "a", "r", "b", "y">>, <<"s", "t", "a", "t", "i", "s", "t", "i", "c", "s">>,
                   <<"r", "a", "n", "d", "o", "m">>}
        malformed ==
            IF "body" \in DOMAIN req THEN ~Truthy(req.body.message)
            ELSE IF req.path = <<<<"n", "e", "a", "r", "b", "y">>>>
            THEN isNaN(parseFloat(req.query.lat)) \/ isNaN(parseFloat(req.query.lng))
            ELSE IF req.path = <<<<"s", "e", "a", "r", "c", "h">>>>
            THEN \/ NonNumeric(req.query.limit)
                 \/ NonNumeric(req.query.minHeight)
                 \/ NonNumeric(req.query.maxHeight)
            ELSE /\ Len(req.path) = 1
                 /\ req.path[1] \notin static
                 /\ ~IsInteger(req.path[1])
    IN  (res # NoResponse /\ malformed) =>
            /\ res.status \in 400..499
            /\ "error" \in DOMAIN res.json

\* the statement of a chat handler as a function of the handler, of whether
\* a type keyword matched and of which height pattern matched (range, single,
\* over, under or none)
Template(handler, types, height) ==
    CASE handler = "getTallestBuilding" ->
             "SELECT id, name, height, building_type, address, ST_AsGeoJSON(geometry) as geometry FROM buildings ORDER BY height DESC LIMIT 1"
      [] handler = "getShortestBuilding" ->
             "SELECT id, name, height, building_type, address, ST_AsGeoJSON(geometry) as geometry FROM buildings ORDER BY height ASC LIMIT 1"
      [] handler = "getTopBuildings" ->
             "SELECT id, name, height, building_type, address, ST_AsGeoJSON(geometry) as geometry FROM buildings ORDER BY height DESC LIMIT $1"
      [] handler = "compareBuildings" ->
             "SELECT id, name, height, building_type, address, ST_AsGeoJSON(geometry) as geometry FROM buildings WHERE LOWER(name) LIKE ANY($1) ORDER BY height DESC"
      [] handler = "getHeightRangeAnalysis" ->
             "SELECT id, name, height, building_type, address, ST_AsGeoJSON(geometry) as geometry FROM buildings WHERE height BETWEEN $1 AND $2 ORDER BY height DESC"
      [] handler = "getBuildingTypeAnalysis" ->
             "SELECT building_type, COUNT(*) as count, AVG(height) as avg_height, MAX(height) as max_height, MIN(height) as min_height FROM buildings GROUP BY building_type ORDER BY count DESC"
      [] handler = "getBuildingStatistics" ->
             "SELECT COUNT(*) as total_buildings, AVG(height) as avg_height, MAX(height) as max_height, MIN(height) as min_height, building_type, COUNT(*) as count_by_type FROM buildings GROUP BY building_type ORDER BY count_by_type DESC"
      [] handler = "getSpecificBuilding" ->
             "SELECT id, name, height, building_type, address, ST_AsGeoJSON(geometry) as geometry FROM buildings WHERE LOWER(name) LIKE $1"
      [] handler = "searchByAddress" ->
             "SELECT id, name, height, building_type, address, ST_AsGeoJSON(geometry) as geometry FROM buildings WHERE LOWER(address) LIKE ANY($1) ORDER BY height DESC"
      [] handler = "getBuildingCount" ->
             IF types
             THEN "SELECT building_type, COUNT(*) as count FROM buildings WHERE building_type ILIKE ANY($1) GROUP BY building_type"
             ELSE "SELECT COUNT(*) as total FROM buildings"
      [] handler = "searchBuildings" ->
             "SELECT id, name, height, building_type, address, ST_AsGeoJSON(geometry) as geometry FROM buildings WHERE 1=1"
             \o (IF types THEN " AND building_type ILIKE ANY($1)" ELSE "")
             \o (CASE height = "range" ->
                          IF types THEN " AND height >= $2 AND height <= $3"
                          ELSE " AND height >= $1 AND height <= $2"
                   [] height = "single" ->
                          IF types THEN " AND height >= $2" ELSE " AND height >= $1"
                   [] height = "over" ->
                          IF types THEN " AND height > $2" ELSE " AND height > $1"
                   [] height = "under" ->
                          IF types THEN " AND height < $2" ELSE " AND height < $1"
                   [] OTHER -> "")
             \o " ORDER BY height DESC LIMIT 10"

\* C16: the text of every SQL statement the chat executor issues is the
\* template selected by the handler and by which patterns matched (a type
\* keyword; the range, single, over or under height pattern), whatever the
\* values in the message are: two messages matching the same patterns with
\* different values give the same text, the values being bound parameters.
C16_StatementIsTemplate ==
    LET lower == LowerMsg
        types == \E k \in 1..Len(buildingTypes) : includes(lower, buildingTypes[k])
        height == IF match(lower, HeightRangeAt).found THEN "range"
                  ELSE IF match(lower, SingleHeightAt).found THEN "single"
                  ELSE IF match(lower, OverHeightAt).found THEN "over"
                  ELSE IF match(lower, UnderHeightAt).found THEN "under"
                  ELSE "none"
    IN  (res # NoResponse /\ "body" \in DOMAIN req /\ queries # <<>>) =>
            \A k \in 1..Len(queries) :
                queries[k].text = Template(calls[2], types, height)

C16_Witness ==
    /\ Answered
    /\ Dispatched("searchBuildings")
    /\ Len(queries) = 1
    /\ Len(queries[1].params) = 3

\* the building meshes of the group, as pairs of building id and highlight flag
GroupBuildings ==
    {<<buildingsGroup[k].buildingId, buildingsGroup[k].isHighlighted>> :
        k \in {j \in 1..Len(buildingsGroup) : buildingsGroup[j].kind = "building"}}

\* C17 (as claimed): after Map has handled a change of the buildings list or
\* of the highlight props, the buildings group holds meshes for exactly the
\* valid-polygon buildings of the current list, with their current highlight
\* flags, and no mesh of an earlier list, also when the new list is empty.
C17_GroupRebuiltFromScratch ==
    GroupBuildings =
        {<<buildings[k].id,
           \/ highlightedBuilding.id = buildings[k].id
           \/ \E j \in 1..Len(highlightedBuildings) :
                  highlightedBuildings[j].id = buildings[k].id>> :
            k \in {j \in 1..Len(buildings) : ValidPolygon(buildings[j])}}

\* C18: a building whose geometry is not a Polygon, is no JSON or lacks its
\* coordinates is skipped without stopping the rebuild: after Map has rebuilt
\* the group from a non-empty list, every building of the list with a valid
\* polygon has its mesh, wherever the bad buildings stand in the list, and no
\* bad building has one.
C18_BadGeometrySkipped ==
    buildings # <<>> =>
        \A k \in 1..Len(buildings) :
            ValidPolygon(buildings[k]) <=>
                \E m \in GroupBuildings : m[1] = buildings[k].id

C18_Witness ==
    /\ Len(buildings) = 5
    /\ ~ValidPolygon(buildings[2])
    /\ \E m \in GroupBuildings : m[1] = buildings[1].id
    /\ \E m \in GroupBuildings : m[1] = buildings[3].id
    /\ highlightedBuilding # NoBuilding

\* C19: a fetch of the building list that fails (no response, or a status
\* that is not OK) ends with loading false and the error set, which is the
\* error view with its retry action; one that succeeds ends with loading
\* false, the error cleared and the list set, which is the main view with
\* the map; a fetch is issued again only from the error view, by the retry
\* action; and every fetch eventually resets loading to false.
C19_FetchErrorRetry ==
    /\ [][(loading /\ ~loading') =>
              IF res.status = 200
              THEN error' = <<>> /\ buildings' = res.json.v
              ELSE error' # <<>> /\ buildings' = buildings]_vars
    /\ [][(~loading /\ loading') =>
              /\ error # <<>>
              /\ req'.from = "app"
              /\ req'.path = <<>>]_vars
    /\ [](loading <=> req.from = "app")
    /\ (loading ~> ~loading)

C19_Witness ==
    /\ loading
    /\ error # <<>>
    /\ res.status = 200
    /\ Len(res.json.v) >= 2

\* C20: the height scale of a footprint of size F is 0.3 for F < 5, 0.5 for
\* 5 <= F < 15, 0.7 for 15 <= F < 30 and 1.0 for F >= 30 (in tenths: 3, 5, 7,
\* 10), no smaller footprint gets a larger scale, and addBuildings,
\* flyToBuilding and getBuildingScreenPosition compute the same scale for the
\* same building.
C20_HeightScaleSteps ==
    LET F == footprintSize(heightScale)
        expected == CASE F < 5 -> 3
                      [] 5 <= F /\ F < 15 -> 5
                      [] 15 <= F /\ F < 30 -> 7
                      [] F >= 30 -> 10
        computed == {heightScale.addBuildings, heightScale.flyToBuilding,
                     heightScale.getBuildingScreenPosition} \ {<<>>}
    IN  /\ computed \subseteq {<<expected>>}
        /\ \A G \in 0..F :
               /\ addBuildings_heightScale(G) <= addBuildings_heightScale(F)
               /\ flyToBuilding_heightScale(G) <= flyToBuilding_heightScale(F)
               /\ getBuildingScreenPosition_heightScale(G)
                      <= getBuildingScreenPosition_heightScale(F)

C20_Witness ==
    /\ footprintSize(heightScale) = 15
    /\ heightScale.addBuildings = <<7>>
    /\ heightScale.flyToBuilding = <<7>>
    /\ heightScale.getBuildingScreenPosition = <<7>>

\* C21: for every (lng, lat) inside the bounding box [39.6, 40.0] x
\* [21.2, 21.6] (99000 to 100000 and 53000 to 54000 steps) geoToScene returns
\* (x, z) with -500 <= x <= 500 and -500 <= z <= 500, the sides and corners of
\* the box mapping to the sides and corners of that square, and a coordinate
\* outside the box maps outside the range, unclamped. Read off the target of
\* a fly-to, which is geoToScene of the center of the building, in
\* twentieths.
C21_GeoToSceneInSquare ==
    camera.framing = "fly-to-single" =>
        LET ring == camera.buildings[1].geometry.coordinates
            lng == (ring[1][1] + ring[2][1] + ring[3][1] + ring[4][1] + ring[5][1]) \div 5
            lat == (ring[1][2] + ring[2][2] + ring[3][2] + ring[4][2] + ring[5][2]) \div 5
            x == camera.target.x
            z == camera.target.z
        IN  /\ (99000 <= lng /\ lng <= 100000) <=> (-10000 <= x /\ x <= 10000)
            /\ (53000 <= lat /\ lat <= 54000) <=> (-10000 <= z /\ z <= 10000)
            /\ lng = 99000 <=> x = -10000
            /\ lng = 100000 <=> x = 10000
            /\ lat = 53000 <=> z = -10000
            /\ lat = 54000 <=> z = 10000
            /\ lng < 99000 <=> x < -10000
            /\ lat > 54000 <=> z > 10000

C21_Witness ==
    /\ camera.framing = "fly-to-single"
    /\ camera.buildings[1].geometry.coordinates = Ring(98998, 53998)
    /\ camera.target.x = -10000
    /\ camera.target.z = 10000

\* C22: fit-all places the camera at distance max(max(sizeX, sizeZ,
\* maxHeight) * 0.3, 50) and fit-highlighted-subset at max(max(sizeX, sizeZ,
\* maxHeight) * 0.8, 100), over the extents of the projected centers and the
\* largest height of the buildings framed (in twentieths: * 6 and 1000,
\* * 16 and 2000); the distance is never below 50, respectively 100; and no
\* step leaves the camera in a fit-all when the list has no valid polygon
\* building, or in a fit-highlighted-subset when the highlighted list has
\* none.
C22_FitDistance ==
    /\ [](LET set == camera.buildings
              lng(b) == b.geometry.coordinates[1][1] + 2
              lat(b) == b.geometry.coordinates[1][2] + 2
              wide(S) == IF S = {} THEN 0
                         ELSE (CHOOSE v \in S : \A w \in S : w <= v)
                                - (CHOOSE v \in S : \A w \in S : v <= w)
              sizeX == wide({lng(set[k]) : k \in 1..Len(set)})
              sizeZ == wide({lat(set[k]) : k \in 1..Len(set)})
              maxHeight == wide({set[k].height : k \in 1..Len(set)} \cup {0})
              size == IF sizeX >= sizeZ /\ sizeX >= maxHeight THEN sizeX
                      ELSE IF sizeZ >= maxHeight THEN sizeZ ELSE maxHeight
          IN  /\ camera.framing = "fit-all" =>
                     /\ camera.distance = IF size * 6 > 1000 THEN size * 6 ELSE 1000
                     /\ camera.distance >= 1000
              /\ camera.framing = "fit-highlighted-subset" =>
                     /\ camera.distance = IF size * 16 > 2000 THEN size * 16 ELSE 2000
                     /\ camera.distance >= 2000)
    /\ [][((\A k \in 1..Len(buildings) : ~ValidPolygon(buildings[k]))
              /\ camera' # camera) =>
                 camera'.framing # "fit-all"]_vars
    /\ [][((\A k \in 1..Len(highlightedBuildings) :
                  ~ValidPolygon(highlightedBuildings[k]))
              /\ camera' # camera) =>
                 camera'.framing # "fit-highlighted-subset"]_vars

C22_Witness ==
    /\ camera.framing = "fit-highlighted-subset"
    /\ Len(camera.buildings) = 2
    /\ camera.distance = 2000
    /\ timers = <<"fitHighlightedBuildingsToView">>
    /\ \A k \in 1..Len(highlightedBuildings) : ~ValidPolygon(highlightedBuildings[k])

\* C23 (as claimed): fit-all centers the camera target above the centroid,
\* the arithmetic mean, of the projected centers of the buildings of the set
\* (target in twentieths, so n * target = 20 * the sum of the centers).
C23_FitAllCentroid ==
    camera.framing = "fit-all" =>
        LET set == camera.buildings
            n == Len(set)
            x(b) == b.geometry.coordinates[1][1] + 2 - 99000 - 500
            z(b) == b.geometry.coordinates[1][2] + 2 - 53000 - 500
        IN  /\ n * camera.target.x = 20 * reduce(set, LAMBDA sum, b : sum + x(b), 0)
            /\ n * camera.target.z = 20 * reduce(set, LAMBDA sum, b : sum + z(b), 0)
            /\ camera.target.y = 0

\* C24 (as claimed): the statistics answer reports store-wide aggregates: for
\* every store content its Tallest Building and Shortest Building values are
\* the maximum and the minimum height over all buildings of the store, and
\* its Average Height is the mean height over all buildings (held as the sum
\* over the total), however the buildings are spread over the types.
C24_StoreWideStatistics ==
    (Answered /\ Dispatched("getBuildingStatistics") /\ ~StoreFailed /\ store # {}) =>
        LET stats == res.json.content
        IN  /\ stats.totalBuildings = Cardinality(store)
            /\ stats.avgHeightTimesTotal = SumHeight(store)
            /\ \A b \in store : b.height <= stats.tallest
            /\ \A b \in store : stats.shortest <= b.height

\* C25 (as claimed): the top-N handler is reached through the "tallest" form
\* of its trigger: a message containing "top" and "tallest", such as "top 2
\* tallest", is answered through getTopBuildings, the query bound to its N.
C25_TopTallestIsTopN ==
    (Answered /\ "string" = typeof(req.body.message)
        /\ includes(LowerMsg, <<"t", "o", "p">>)
        /\ includes(LowerMsg, <<"t", "a", "l", "l", "e", "s", "t">>)) =>
            /\ Dispatched("getTopBuildings")
            /\ queries[1].params = <<ExpectedLimit(LowerMsg)>>

\* C26 (as claimed): under any interleaving of the mount timer, the framing
\* timers of the updates and the highlight changes, once all pending timers
\* have fired the last framing applied is the one the current highlight
\* state selects: fit-highlighted-subset over the highlighted list if that
\* is non-empty, else fly-to the singly highlighted building if one is set,
\* else fit-all over the list (each where it has a valid polygon to frame).
C26_LastFramingIsCurrent ==
    timers = <<>> =>
        IF Len(highlightedBuildings) > 0
        THEN (\E k \in 1..Len(highlightedBuildings) :
                  ValidPolygon(highlightedBuildings[k])) =>
                 /\ camera.framing = "fit-highlighted-subset"
                 /\ camera.buildings = SelectSeq(highlightedBuildings, ValidPolygon)
        ELSE IF highlightedBuilding # NoBuilding
        THEN ValidPolygon(highlightedBuilding) =>
                 /\ camera.framing = "fly-to-single"
                 /\ camera.buildings = <<highlightedBuilding>>
        ELSE (\E k \in 1..Len(buildings) : ValidPolygon(buildings[k])) =>
                 /\ camera.framing = "fit-all"
                 /\ camera.buildings = SelectSeq(buildings, ValidPolygon)

\* C27: the chat client has at most one request in flight: while isLoading is
\* true no user message is appended, so the conversation alternates (after
\* the greeting every user message is followed by exactly one bot message
\* before the next user message, and the last message is the user's exactly
\* while isLoading); the bot message that ends a request is the response
\* content when the status is OK and the fixed error text on a network
\* failure or another status, and isLoading is false after it; and every
\* request is eventually answered this way.
C27_OneRequestInFlight ==
    /\ [](/\ \A k \in 1..Len(messages) :
                 messages[k].sender = (IF k % 2 = 0 THEN "user" ELSE "bot")
          /\ isLoading <=> Len(messages) % 2 = 0
          /\ isLoading <=> req.from = "chatbot")
    /\ [][isLoading => (messages' = messages \/ ~isLoading')]_vars
    /\ [][(isLoading /\ ~isLoading') =>
              /\ Len(messages') = Len(messages) + 1
              /\ messages'[Len(messages')].text =
                     IF res.status = 200 THEN res.json.content
                     ELSE "Sorry, I'm having trouble processing your request. Please try again."]_vars
    /\ (isLoading ~> ~isLoading)

C27_Witness ==
    /\ ~isLoading
    /\ Len(messages) = 5
    /\ "type" \in DOMAIN messages[3]
    /\ "type" \notin DOMAIN messages[5]

\* C28: in App single and multi highlighting exclude each other in every
\* reachable state: after any sequence of chat responses, result-list clicks
\* and map clicks highlightedBuilding is never set while highlightedBuildings
\* is non-empty; and a chat response that carries no building leaves both
\* highlight values unchanged.
C28_HighlightsExclusive ==
    /\ [](~(highlightedBuilding # NoBuilding /\ Len(highlightedBuildings) > 0))
    /\ [][(isLoading /\ ~isLoading'
              /\ (res.status # 200
                     \/ ("building" \notin DOMAIN res.json
                            /\ ("buildings" \notin DOMAIN res.json
                                   \/ res.json.buildings = <<>>)))) =>
                 /\ highlightedBuilding' = highlightedBuilding
                 /\ highlightedBuildings' = highlightedBuildings]_vars

C28_Witness ==
    /\ highlightedBuilding # NoBuilding
    /\ highlightedBuildings = <<>>
    /\ Len(messages) = 3
    /\ "type" \in DOMAIN messages[3]
    /\ messages[3].type = "search_results"
    /\ Len(messages[3].buildings) > 1
    /\ camera.framing = "fly-to-single"

\* C29 (as claimed): every object that addBuildings puts into the buildings
\* group carries a buildingId that resolves to a building of the current
\* list, so that a click meeting any object of a rendered building first,
\* highlighted or not, finds that building.
C29_EveryObjectHasBuilding ==
    \A j \in 1..Len(buildingsGroup) :
        /\ "buildingId" \in DOMAIN buildingsGroup[j]
        /\ \E k \in 1..Len(buildings) : buildings[k].id = buildingsGroup[j].buildingId

\* C30 (as claimed): inside App the anchored building info card is shown
\* exactly when a single building is highlighted (highlightedBuilding set
\* and no multi-building highlight active), and hidden when a
\* multi-building highlight is active or nothing is highlighted.
C30_InfoCardForSingleHighlight ==
    infoCard(MapProps) <=> (highlightedBuilding # NoBuilding /\ highlightedBuildings = <<>>)

====
